---- MODULE Spec2Model ----
\* A model of the Dust API client (api_client.py): the four stages
\* create_conversation, send_message, get_agent_message (the Locator) and
\* get_agent_response (the Aggregator), driven in the order of
\* test_api_client.py against a remote whose every response is chosen
\* nondeterministically; and of the tool dust_systems_thinking (server.py),
\* which runs the same four stages inline over a process-wide conversation id.
\*
\* Spec          the client against bodies of the shapes the code names
\* SpecBodies    the client against those and bodies of other shapes
\* SpecScenario  the client against a remote that can answer as expected
\* SpecBackoff   get_agent_message alone, while the agent has not answered
\* SpecOrdering  get_agent_message alone, on messages with either sort key
\* SpecServer    a session of invocations of the tool, one at a time
\* SpecSignal    the same session in a process that can get a SIGINT
\* SpecThreads   two invocations of the tool running side by side
\* SpecSideBySide  the polling stages of tool and client on the same answers
EXTENDS Integers, Sequences, FiniteSets, TLC

\* ------------------------------------------------------------------ bounds

\* Largest max_retries a run is started with (the code's default is 30).
MaxRetries == 3
\* Largest number of messages in one fetched conversation page.
MaxPage == 2
\* Largest number of events in one fetched event list.
MaxEvents == 3
\* Largest max_retries of a call of get_agent_message on its own.
MaxBackoffRetries == 6

\* ------------------------------------------------------------- JSON values

\* dict.get(key) / "key" in dict on an absent key
NoKey == -1
NoStr == ""
None == "None"
\* a JSON number in the place of an id
NumberId == "7 (a number)"
\* isinstance(v, str) for the value of an id field
IsStr(v) == v \notin {None, NumberId}

ConvIds == {"conv_1"}

\* The ids the remote can give the message that send_message posts: the id
\* of a message it lists as the user's, or of one it lists as the agent's.
SentIds == {"m2", "m3"}

\* The messages the remote can put in a page. sId = NoStr: no "sId" key;
\* created / rank = NoKey: no such key; author_type = NoStr: no author.type;
\* type = NoStr: no "type" key.
Messages ==
    { [sId |-> "m1", created |-> 1, rank |-> NoKey, author_type |-> NoStr, type |-> "agent_message"],
      [sId |-> "m2", created |-> 2, rank |-> NoKey, author_type |-> "user", type |-> "user_message"],
      [sId |-> "m3", created |-> 3, rank |-> NoKey, author_type |-> "assistant", type |-> NoStr],
      [sId |-> "m4", created |-> 3, rank |-> NoKey, author_type |-> NoStr, type |-> "assistant_message"],
      [sId |-> NoStr, created |-> 4, rank |-> NoKey, author_type |-> "assistant", type |-> "agent_message"] }

MessageIds == {m.sId : m \in Messages} \ {NoStr}

SeqsUpTo(S, n) == UNION {[1..k -> S] : k \in 0..n}

Pages == SeqsUpTo(Messages, MaxPage)

\* conversation.content as the remote sends it: an array whose items are
\* arrays of messages or messages themselves. Here the last message of the
\* page is a direct object and the ones before it are in one array.
AsContent(page) ==
    IF page = <<>> THEN <<>>
    ELSE << [isList |-> TRUE, msgs |-> SubSeq(page, 1, Len(page) - 1)],
            [isList |-> FALSE, msgs |-> <<page[Len(page)]>>] >>

\* Responses to GET conversation. kind: "transport" (requests raises),
\* "http" (status other than 200), "ok" (status 200 with a JSON object).
\* shape: which keys the object has.
LocatorResponses ==
    { [kind |-> "transport", shape |-> "none", content |-> <<>>, messages |-> <<>>],
      [kind |-> "http", shape |-> "none", content |-> <<>>, messages |-> <<>>],
      [kind |-> "ok", shape |-> "other", content |-> <<>>, messages |-> <<>>] }
    \cup { [kind |-> "ok", shape |-> "content", content |-> AsContent(p), messages |-> <<>>] :
             p \in Pages }
    \cup { [kind |-> "ok", shape |-> "messages", content |-> <<>>, messages |-> p] : p \in Pages }

\* ------------------------------------------------------------- outcomes

NoError == [step |-> 0, text |-> NoStr, n |-> NoKey]
\* {"error": f"Step {step}: {text}"}; n is the number the text embeds, if any
Error(step, text, n) == [step |-> step, text |-> text, n |-> n]
Pending == [done |-> FALSE, ok |-> FALSE, value |-> None, error |-> NoError]
Success(v) == [done |-> TRUE, ok |-> TRUE, value |-> v, error |-> NoError]
Failure(e) == [done |-> TRUE, ok |-> FALSE, value |-> None, error |-> e]

\* ------------------------------------------------------------- the Locator

Min(a, b) == IF a < b THEN a ELSE b

\* the delay without its cap
DelayUncapped(attempt) == 2 * (attempt + 1)

\* delay = min(2 * (attempt + 1), 10)
Delay(attempt) == Min(2 * (attempt + 1), 10)

RECURSIVE Flatten(_)
\* new_messages from conversation.content
Flatten(content) ==
    IF content = <<>> THEN <<>>
    ELSE IF Head(content).isList
         THEN Head(content).msgs \o Flatten(Tail(content))
         ELSE <<Head(content).msgs[1]>> \o Flatten(Tail(content))

NewMessages(resp) ==
    IF resp.shape = "content" THEN Flatten(resp.content) ELSE resp.messages

HasId(store, id) == \E i \in 1..Len(store) : store[i].sId = id

\* the page replacing the store in place of being merged into it
MergeMessagesReplace(store, new) ==
    SelectSeq(new, LAMBDA m : m.sId # NoStr)

RECURSIVE MergeMessages(_, _)
\* append every new message that has an sId not yet in the store
MergeMessages(store, new) ==
    IF new = <<>> THEN store
    ELSE LET msg == Head(new) IN
         IF msg.sId # NoStr /\ ~HasId(store, msg.sId)
         THEN MergeMessages(Append(store, msg), Tail(new))
         ELSE MergeMessages(store, Tail(new))

\* m.get(key, 0)
GetCreated(m) == IF m.created = NoKey THEN 0 ELSE m.created
GetRank(m) == IF m.rank = NoKey THEN 0 ELSE m.rank

\* the sort key: m.get("created", 0) or m.get("rank", 0)
KeyOf(m, key) == IF key = "created" THEN GetCreated(m) ELSE GetRank(m)

RECURSIVE InsertStable(_, _, _)
\* m placed after every element whose key is <= its own
InsertStable(sorted, m, key) ==
    IF sorted = <<>> THEN <<m>>
    ELSE IF KeyOf(Head(sorted), key) <= KeyOf(m, key)
         THEN <<Head(sorted)>> \o InsertStable(Tail(sorted), m, key)
         ELSE <<m>> \o sorted

RECURSIVE SortedBy(_, _)
\* sorted(seq, key=...): ascending and stable
SortedBy(seq, key) ==
    IF seq = <<>> THEN <<>>
    ELSE InsertStable(SortedBy(SubSeq(seq, 1, Len(seq) - 1), key), seq[Len(seq)], key)

\* sort by created if the first stored message has it, else by rank if the
\* first stored message has that, else leave the order
SortStore(store) ==
    IF store # <<>> /\ store[1].created # NoKey THEN SortedBy(store, "created")
    ELSE IF store # <<>> /\ store[1].rank # NoKey THEN SortedBy(store, "rank")
    ELSE store

\* the author type as the only signal of the role
IsAssistantAuthorOnly(m) == m.author_type = "assistant"

\* is_assistant: the author type or the message type says so
IsAssistant(m) ==
    \/ m.author_type = "assistant"
    \/ m.type = "assistant_message"
    \/ m.type = "agent_message"

RECURSIVE ScanAnyAgent(_, _, _, _)
\* the scan without the wait for the user message
ScanAnyAgent(store, i, found, user_message_id) ==
    IF i > Len(store) THEN [found |-> found, hit |-> FALSE, id |-> None]
    ELSE IF IsAssistant(store[i])
         THEN [found |-> found, hit |-> TRUE, id |-> store[i].sId]
    ELSE ScanAnyAgent(store, i + 1, found, user_message_id)

RECURSIVE Scan(_, _, _, _)
\* the scan loop from index i on: [found, hit, id]
Scan(store, i, found, user_message_id) ==
    IF i > Len(store) THEN [found |-> found, hit |-> FALSE, id |-> None]
    ELSE IF ~found /\ store[i].sId = user_message_id
         THEN Scan(store, i + 1, TRUE, user_message_id)
    ELSE IF found /\ IsAssistant(store[i])
         THEN [found |-> found, hit |-> TRUE, id |-> store[i].sId]
    ELSE Scan(store, i + 1, found, user_message_id)

\* range(max_retries + 1) in place of range(max_retries)
LoopRunsInclusive(attempt, n) == attempt <= n

\* for attempt in range(max_retries): the loop body runs once more
LoopRuns(attempt, n) == attempt < n

\* The locals of get_agent_message: [attempt, store, found, delays, ret];
\* ret is Pending until the function returns.

\* the except clause returning the error in place of sleeping
OnRequestFailedFatal(l) ==
    [l EXCEPT !.ret = Failure(Error(3, "Failed to get conversation data", NoKey))]

\* status other than 200, or a RequestException: sleep the backoff, go on
OnRequestFailed(l) ==
    [l EXCEPT !.attempt = @ + 1, !.delays = Append(@, Delay(l.attempt))]

\* the else branch returning an error in place of continue
OnUnexpectedFormatFatal(l) ==
    [l EXCEPT !.ret = Failure(Error(3, "Unexpected response format", NoKey))]

\* a body with neither conversation.content nor messages: continue
OnUnexpectedFormat(l) == [l EXCEPT !.attempt = @ + 1]

\* the backoff sleep placed before the scan in place of after it
OnPageSleepFirst(l, user_message_id, resp) ==
    LET merged == SortStore(MergeMessages(l.store, NewMessages(resp)))
        sc == Scan(merged, 1, l.found, user_message_id)
        slept == Append(l.delays, Delay(l.attempt))
    IN IF sc.hit
       THEN [l EXCEPT !.store = merged, !.found = sc.found, !.delays = slept,
                      !.ret = Success(sc.id)]
       ELSE [l EXCEPT !.store = merged, !.found = sc.found, !.attempt = @ + 1,
                      !.delays = slept]

\* a body with messages: merge, sort, scan; return on a hit, else sleep
OnPage(l, user_message_id, resp) ==
    LET merged == SortStore(MergeMessages(l.store, NewMessages(resp)))
        sc == Scan(merged, 1, l.found, user_message_id)
    IN IF sc.hit
       THEN [l EXCEPT !.store = merged, !.found = sc.found, !.ret = Success(sc.id)]
       ELSE [l EXCEPT !.store = merged, !.found = sc.found, !.attempt = @ + 1,
                      !.delays = Append(@, Delay(l.attempt))]

\* one iteration of the loop of get_agent_message
LocatorAttempt(l, user_message_id, resp) ==
    IF resp.kind # "ok" THEN OnRequestFailed(l)
    ELSE IF resp.shape = "other" THEN OnUnexpectedFormat(l)
    ELSE OnPage(l, user_message_id, resp)

\* get_agent_message: the Failure after the loop
LocatorTimeout(n) == Failure(Error(3, "No agent message found after n attempts", n))

\* ---------------------------------------------------------- the Aggregator

\* The events the remote can put in an event list. block: "content" (a
\* contentBlock with content), "nocontent" (a contentBlock without), "absent".
Events ==
    { [block |-> "content", content |-> "Hello", type |-> "content"],
      [block |-> "content", content |-> " world", type |-> "content"],
      [block |-> "nocontent", content |-> NoStr, type |-> "other"],
      [block |-> "absent", content |-> NoStr, type |-> "generation-complete"] }

EventLists == SeqsUpTo(Events, MaxEvents)

\* Responses to GET events: "transport" (requests raises), "http"
\* (raise_for_status raises), "ok" with or without the "events" key.
AggregatorResponses ==
    { [kind |-> "transport", shape |-> "none", events |-> <<>>],
      [kind |-> "http", shape |-> "none", events |-> <<>>],
      [kind |-> "ok", shape |-> "other", events |-> <<>>] }
    \cup { [kind |-> "ok", shape |-> "events", events |-> e] : e \in EventLists }

RECURSIVE FullContentUntilMarker(_)
\* the loop over the events with a break at the completion marker
FullContentUntilMarker(evs) ==
    IF evs = <<>> THEN <<>>
    ELSE IF Head(evs).type = "generation-complete" THEN <<>>
    ELSE IF Head(evs).block = "content"
         THEN <<Head(evs).content>> \o FullContentUntilMarker(Tail(evs))
         ELSE FullContentUntilMarker(Tail(evs))

RECURSIVE FullContent(_)
\* full_content after the loop over the events
FullContent(evs) ==
    IF evs = <<>> THEN <<>>
    ELSE IF Head(evs).block = "content"
         THEN <<Head(evs).content>> \o FullContent(Tail(evs))
         ELSE FullContent(Tail(evs))

\* completed set by a content block in place of the completion marker
CompletedOnContent(evs) == \E i \in 1..Len(evs) : evs[i].block = "content"

\* completed set by the marker only when a content block came too
CompletedWithContent(evs) ==
    /\ \E i \in 1..Len(evs) : evs[i].type = "generation-complete"
    /\ \E i \in 1..Len(evs) : evs[i].block = "content"

RECURSIVE Completed(_)
\* completed after the loop over the events
Completed(evs) ==
    IF evs = <<>> THEN FALSE
    ELSE IF Head(evs).type = "generation-complete" THEN TRUE
    ELSE Completed(Tail(evs))

RECURSIVE JoinNewline(_)
\* "\n".join(parts)
JoinNewline(parts) ==
    IF parts = <<>> THEN ""
    ELSE IF Len(parts) = 1 THEN parts[1]
    ELSE parts[1] \o "\n" \o JoinNewline(Tail(parts))

HasMarker(evs) == \E i \in 1..Len(evs) : evs[i].type = "generation-complete"

\* get_agent_response: the sleep between attempts
AggregatorDelay == 1

\* The locals of get_agent_response: [attempt, events, full_content, delays,
\* ret]; ret is Pending until the function returns.

\* the except clause sleeping and going on in place of returning
OnEventsFailedRetry(l) ==
    [l EXCEPT !.attempt = @ + 1, !.delays = Append(@, AggregatorDelay)]

\* a RequestException (transport, or raise_for_status): return the error
OnEventsFailed(l) == [l EXCEPT !.ret = Failure(Error(4, "Request error", NoKey))]

\* a body without the events key: return the error
OnNoEvents(l) == [l EXCEPT !.ret = Failure(Error(4, "Unexpected response format", NoKey))]

\* completed and full_content kept from one attempt to the next
OnEventsAccumulate(l, resp) ==
    LET content == l.full_content \o FullContent(resp.events) IN
    IF Completed(l.events) \/ Completed(resp.events)
    THEN [l EXCEPT !.events = resp.events, !.full_content = content,
                   !.ret = Success(JoinNewline(content))]
    ELSE [l EXCEPT !.events = resp.events, !.full_content = content,
                   !.attempt = @ + 1, !.delays = Append(@, AggregatorDelay)]

\* the loop body without the sleep
OnEventsNoSleep(l, resp) ==
    LET content == FullContent(resp.events) IN
    IF Completed(resp.events)
    THEN [l EXCEPT !.events = resp.events, !.full_content = content,
                   !.ret = Success(JoinNewline(content))]
    ELSE [l EXCEPT !.events = resp.events, !.full_content = content,
                   !.attempt = @ + 1]

\* a body with events: collect, return the joined text when completed, else
\* sleep
OnEvents(l, resp) ==
    LET content == FullContent(resp.events) IN
    IF Completed(resp.events)
    THEN [l EXCEPT !.events = resp.events, !.full_content = content,
                   !.ret = Success(JoinNewline(content))]
    ELSE [l EXCEPT !.events = resp.events, !.full_content = content,
                   !.attempt = @ + 1, !.delays = Append(@, AggregatorDelay)]

\* one iteration of the loop of get_agent_response
AggregatorAttempt(l, resp) ==
    IF resp.kind # "ok" THEN OnEventsFailed(l)
    ELSE IF resp.shape = "other" THEN OnNoEvents(l)
    ELSE OnEvents(l, resp)

\* get_agent_response: the Failure after the loop
AggregatorTimeout(n) == Failure(Error(4, "Timed out waiting for a response after n attempts", n))

\* ------------------------------------------------- Initiator and Sender

\* Responses to the two POSTs: "transport", "http", or "ok" with a body that
\* has the nested sId (shape "id") or lacks it (shape "other").
PostResponses(ids) ==
    { [kind |-> "transport", shape |-> "none", sId |-> None],
      [kind |-> "http", shape |-> "none", sId |-> None],
      [kind |-> "ok", shape |-> "other", sId |-> None] }
    \cup { [kind |-> "ok", shape |-> "id", sId |-> id] : id \in ids }

\* Bodies of other shapes: the nested object is null (shape "null"), or the
\* sId in it is null or a number.
OddPostResponses ==
    { [kind |-> "ok", shape |-> "null", sId |-> None],
      [kind |-> "ok", shape |-> "id", sId |-> None],
      [kind |-> "ok", shape |-> "id", sId |-> NumberId] }

\* {"conversation": null} and {"messages": null} in answer to GET conversation
OddLocatorResponses ==
    { [kind |-> "ok", shape |-> "null", content |-> <<>>, messages |-> <<>>] }

\* {"events": null} in answer to GET events
OddAggregatorResponses ==
    { [kind |-> "ok", shape |-> "null", events |-> <<>>] }

\* "key" in body[...] or a loop over body[...] where the value is null:
\* Python raises TypeError
Raises(resp) == resp.kind = "ok" /\ resp.shape = "null"

\* what a response is, whatever the stage does with it
LogKind(resp) ==
    IF resp.kind # "ok" THEN resp.kind
    ELSE IF resp.shape = "other" THEN "shape"
    ELSE IF resp.shape = "null" THEN "malformed"
    ELSE IF resp.shape = "id" /\ resp.sId = None THEN "null_id"
    ELSE IF resp.shape = "id" /\ ~IsStr(resp.sId) THEN "nonstring_id"
    ELSE "body"

\* the messages with an sId that a response carries
Fetched(resp) ==
    IF resp.kind = "ok" /\ resp.shape \in {"content", "messages"}
    THEN {NewMessages(resp)[i] : i \in {j \in 1..Len(NewMessages(resp)) :
                                           NewMessages(resp)[j].sId # NoStr}}
    ELSE {}

\* a request as requests.get / requests.post sees it: the method, the last
\* segment of the path, and the ids in the path
Request(method, path, conv, msg) ==
    [method |-> method, path |-> path, conv |-> conv, msg |-> msg]
NoRequest == Request("none", "none", None, None)

\* ------------------------------------------- the tool's stages (server.py)

\* the default of DUST_API_KEY
Placeholder == "store SECRETS in .env file"

\* The environment of the process: None is an unset variable, NoStr one set
\* to the empty string.
Envs ==
    [ api_key : {None, NoStr, Placeholder, "sk-1"},
      workspace_id : {None, "ws"},
      agent_id : {None, "agent"} ]

\* the environment test_api_client.py is run in
TestEnv == [api_key |-> "sk-1", workspace_id |-> "ws", agent_id |-> "agent"]

\* not v, for None and strings
Falsy(v) == v \in {None, NoStr}

\* DustAgentConfig.__init__: os.getenv(name, default)
DustAgentConfig(e) ==
    [ api_key |-> IF e.api_key = None THEN Placeholder ELSE e.api_key,
      workspace_id |-> IF e.workspace_id = None THEN "11453f1c9e" ELSE e.workspace_id,
      agent_id |-> IF e.agent_id = None THEN "8x9nuWdMnR" ELSE e.agent_id ]

\* DustAgentConfig.validate: is_valid
validate(config) ==
    /\ ~(Falsy(config.api_key) \/ config.api_key = Placeholder)
    /\ ~Falsy(config.workspace_id)
    /\ ~Falsy(config.agent_id)

\* all([DUST_API_KEY, DUST_WORKSPACE_ID, DUST_AGENT_ID]) over os.getenv(name)
ConfigPresent(e) ==
    ~Falsy(e.api_key) /\ ~Falsy(e.workspace_id) /\ ~Falsy(e.agent_id)

\* what the tool returns: {"response": text} or {"error": text}; step is the
\* n of a leading "Step n:" in the text, 0 when the text has none
NoPayload == [kind |-> "none", step |-> 0, text |-> NoStr]
ResponsePayload(text) == [kind |-> "response", step |-> 0, text |-> text]
ErrorPayload(step, text) == [kind |-> "error", step |-> step, text |-> text]

\* {"error": error_msg} for the Failure of an inline stage
ToolError(r) == ErrorPayload(r.error.step, r.error.text)

\* except Exception as e: "Unexpected error: ..."
UnexpectedError == Failure(Error(0, "Unexpected error", NoKey))

\* a create request only when asked for, an id held or not
NeedsCreateOnlyWhenAsked(nc, id) == nc

\* if new_conversation or not CONVERSATION_ID
NeedsCreate(nc, id) == nc \/ Falsy(id)

\* every stage followed by the next one, whatever its outcome
NextStepAlways(next, r) == next

\* after an inline stage: on with the next one, or return the error
NextStep(next, r) == IF r.ok THEN next ELSE "idle"

\* the failure of Step 1 assigned like its success
ConversationIdAssignedAlways(r, id) == r.value

\* CONVERSATION_ID after Step 1: assigned on the path of line 124 only
ConversationIdAfterCreate(r, id) == IF r.ok THEN r.value ELSE id

ToolConvIds == {"conv_1", "conv_2"}

\* the responses to the tool's POST conversations
ToolCreateResponses == PostResponses(ToolConvIds) \cup OddPostResponses

\* Step 1: the outcome for a response
ToolCreateResult(resp) ==
    IF resp.kind # "ok" THEN Failure(Error(1, "Failed to create conversation", NoKey))
    ELSE IF Raises(resp) THEN UnexpectedError
    ELSE IF resp.shape = "id" THEN Success(resp.sId)
    ELSE Failure(Error(1, "Unexpected response format", NoKey))

\* The responses to the tool's POST messages of Step 2. shape: "id" is
\* {"message": {"sId": ..}}, "top_id" is {"id": ..}, "top_sId" is {"sId": ..}.
ToolSendResponses ==
    PostResponses({"m2"})
    \cup { [kind |-> "ok", shape |-> "top_id", sId |-> "m2"],
           [kind |-> "ok", shape |-> "top_sId", sId |-> "m2"],
           [kind |-> "ok", shape |-> "null", sId |-> None] }

\* Step 2: the outcome for a response
ToolSendResult(resp) ==
    IF resp.kind # "ok" THEN Failure(Error(2, "Failed to send message", NoKey))
    ELSE IF Raises(resp) THEN UnexpectedError
    ELSE IF resp.shape \in {"id", "top_id", "top_sId"} THEN Success(resp.sId)
    ELSE Failure(Error(2, "Could not find message ID in response", NoKey))

\* The messages the remote can list to the tool. sId = NoStr: no "sId" key;
\* created_at = FALSE: no "created_at" key.
ToolMessages ==
    { [sId |-> "m1", created_at |-> TRUE, author_type |-> "assistant"],
      [sId |-> "m2", created_at |-> TRUE, author_type |-> "user"],
      [sId |-> "m3", created_at |-> TRUE, author_type |-> "agent"],
      [sId |-> "m4", created_at |-> FALSE, author_type |-> "agent"] }

\* The responses to the POST messages of Step 3: with or without the
\* "messages" key, or with null under it.
ToolMessagesResponses ==
    { [kind |-> "transport", shape |-> "none", messages |-> <<>>],
      [kind |-> "http", shape |-> "none", messages |-> <<>>],
      [kind |-> "ok", shape |-> "other", messages |-> <<>>],
      [kind |-> "ok", shape |-> "null", messages |-> <<>>] }
    \cup { [kind |-> "ok", shape |-> "messages", messages |-> p] :
             p \in SeqsUpTo(ToolMessages, MaxPage) }

RECURSIVE ToolScan(_, _, _, _)
\* Step 3: the loop over the messages from index i on: agent_message_id
ToolScan(messages, i, found, user_message_id) ==
    IF i > Len(messages) THEN None
    ELSE IF messages[i].sId = NoStr \/ ~messages[i].created_at
         THEN ToolScan(messages, i + 1, found, user_message_id)
    ELSE IF messages[i].sId = user_message_id
         THEN ToolScan(messages, i + 1, TRUE, user_message_id)
    ELSE IF found /\ messages[i].author_type = "agent" THEN messages[i].sId
    ELSE ToolScan(messages, i + 1, found, user_message_id)

\* Step 3: the outcome of one attempt; Pending: sleep and go on
ToolLocate(resp, user_message_id) ==
    IF resp.kind # "ok" THEN Failure(Error(3, "Failed to get messages", NoKey))
    ELSE IF Raises(resp) THEN UnexpectedError
    ELSE LET id == ToolScan(resp.messages, 1, FALSE, user_message_id)
         IN IF ~Falsy(id) THEN Success(id) ELSE Pending

\* The events the remote can list to the tool. has_content = FALSE: no
\* "content" key.
ToolEvents ==
    { [type |-> "content_block", has_content |-> TRUE, content |-> "Hi", status |-> NoStr],
      [type |-> "status", has_content |-> FALSE, content |-> NoStr, status |-> "running"],
      [type |-> "status", has_content |-> FALSE, content |-> NoStr, status |-> "completed"] }

\* The responses to GET events of Step 4.
ToolEventsResponses ==
    { [kind |-> "transport", shape |-> "none", events |-> <<>>],
      [kind |-> "http", shape |-> "none", events |-> <<>>],
      [kind |-> "ok", shape |-> "other", events |-> <<>>],
      [kind |-> "ok", shape |-> "null", events |-> <<>>] }
    \cup { [kind |-> "ok", shape |-> "events", events |-> e] :
             e \in SeqsUpTo(ToolEvents, MaxEvents) }

RECURSIVE ToolFullContent(_)
\* Step 4: full_content after the loop over the events
ToolFullContent(evs) ==
    IF evs = <<>> THEN <<>>
    ELSE IF Head(evs).type = "content_block" /\ Head(evs).has_content
         THEN <<Head(evs).content>> \o ToolFullContent(Tail(evs))
         ELSE ToolFullContent(Tail(evs))

\* Step 4: completed after the loop over the events
ToolCompleted(evs) ==
    \E i \in 1..Len(evs) : evs[i].type = "status" /\ evs[i].status = "completed"

\* Step 4: the outcome of one attempt; Pending: sleep and go on. The error
\* for a body without "events" has no "Step 4:" in front.
ToolAggregate(resp) ==
    IF resp.kind # "ok" THEN Failure(Error(4, "Request error", NoKey))
    ELSE IF Raises(resp) THEN UnexpectedError
    ELSE IF resp.shape = "other" THEN Failure(Error(0, "Unexpected response format", NoKey))
    ELSE IF ToolCompleted(resp.events)
         THEN Success(JoinNewline(ToolFullContent(resp.events)))
         ELSE Pending

\* ------------------------------------------------------------------ state

VARIABLES
    pc,                  \* where the run is: in a stage, or back in the caller
    max_retries,         \* the max_retries of both polling stages
    conversation_id,     \* the test's conversation_id
    user_message_id,     \* the caller's user_message_id
    agent_message_id,    \* the caller's agent_message_id
    ret,                 \* how each stage ended
    requests,            \* HTTP requests issued by each stage
    attempt,             \* the loop index of the running polling stage
    messages_store,      \* get_agent_message: messages_store
    user_message_found,  \* get_agent_message: user_message_found
    events,              \* get_agent_response: events of the current attempt
    full_content,        \* get_agent_response: full_content
    delays,              \* the time.sleep calls of the running polling stage
    last_resp,           \* the kind of the last response the running stage got
    seen,                \* the kinds of all responses the running stage got
    marker_seen,         \* an earlier or the current event list had the marker
    raised,              \* the exception that left a client stage, if any
    fetched,             \* get_agent_message: the messages of all pages so far
    posts,               \* requests POST .../conversations/{id}/messages so far
    last_request,        \* the last request issued
    last_id,             \* the sId in the body of the last response to a POST
    CONVERSATION_ID,     \* server.py: the global CONVERSATION_ID
    LAST_MESSAGE_ID,     \* server.py: the global LAST_MESSAGE_ID
    env,                 \* the environment variables of the process
    new_conversation,    \* the tool's argument new_conversation
    payload,             \* what the last invocation of the tool returned
    invocations          \* the locals of the invocations running side by side

vars == <<pc, max_retries, conversation_id, user_message_id, agent_message_id,
          ret, requests, attempt, messages_store, user_message_found, events,
          full_content, delays, last_resp, seen, marker_seen, raised, fetched,
          posts, last_request, last_id, CONVERSATION_ID, LAST_MESSAGE_ID, env,
          new_conversation, payload, invocations>>

\* what only the tool reads or writes
session == <<CONVERSATION_ID, LAST_MESSAGE_ID, env, new_conversation, payload,
             invocations>>

\* what only the client and its test read or write
client == <<conversation_id, messages_store, user_message_found, events,
            full_content, seen, marker_seen, raised, fetched, last_id>>

Stages == 1..4

Init ==
    /\ pc = "create"
    /\ max_retries \in 0..MaxRetries
    /\ conversation_id = None
    /\ user_message_id = None
    /\ agent_message_id = None
    /\ ret = [s \in Stages |-> Pending]
    /\ requests = [s \in Stages |-> 0]
    /\ attempt = 0
    /\ messages_store = <<>>
    /\ user_message_found = FALSE
    /\ events = <<>>
    /\ full_content = <<>>
    /\ delays = <<>>
    /\ last_resp = "none"
    /\ seen = {}
    /\ marker_seen = FALSE
    /\ raised = "none"
    /\ fetched = {}
    /\ posts = 0
    /\ last_request = NoRequest
    /\ last_id = None
    /\ CONVERSATION_ID = None
    /\ LAST_MESSAGE_ID = None
    /\ env = TestEnv
    /\ new_conversation = FALSE
    /\ payload = NoPayload
    /\ invocations = <<>>

\* The process of server.py after its import: no invocation yet. max_retries
\* is the tool's own constant (30), for which the bound stands.
InitServer ==
    /\ pc = "idle"
    /\ max_retries = MaxRetries
    /\ conversation_id = None
    /\ user_message_id = None
    /\ agent_message_id = None
    /\ ret = [s \in Stages |-> Pending]
    /\ requests = [s \in Stages |-> 0]
    /\ attempt = 0
    /\ messages_store = <<>>
    /\ user_message_found = FALSE
    /\ events = <<>>
    /\ full_content = <<>>
    /\ delays = <<>>
    /\ last_resp = "none"
    /\ seen = {}
    /\ marker_seen = FALSE
    /\ raised = "none"
    /\ fetched = {}
    /\ posts = 0
    /\ last_request = NoRequest
    /\ last_id = None
    /\ CONVERSATION_ID = None
    /\ LAST_MESSAGE_ID = None
    /\ env \in Envs
    /\ new_conversation = FALSE
    /\ payload = NoPayload
    /\ invocations = <<>>

\* ---------------------------------------------------------------- actions

\* create_conversation: the return value for a response
CreateResult(resp) ==
    IF resp.kind # "ok" THEN Failure(Error(1, "Failed to create conversation", NoKey))
    ELSE IF resp.shape = "id" THEN Success(resp.sId)
    ELSE Failure(Error(1, "Unexpected response format", NoKey))

\* the errors of send_message tagged as those of create_conversation
SendResultStage1(resp) ==
    IF resp.kind # "ok" THEN Failure(Error(1, "Failed to send message", NoKey))
    ELSE IF resp.shape = "id" THEN Success(resp.sId)
    ELSE Failure(Error(1, "Could not find message ID in response", NoKey))

\* send_message: the return value for a response
SendResult(resp) ==
    IF resp.kind # "ok" THEN Failure(Error(2, "Failed to send message", NoKey))
    ELSE IF resp.shape = "id" THEN Success(resp.sId)
    ELSE Failure(Error(2, "Could not find message ID in response", NoKey))

\* create_conversation(query): one POST, then a return, or a TypeError that
\* goes through the caller
CreateConversationOn(responses) ==
    /\ pc = "create"
    /\ \E resp \in responses :
         /\ requests' = [requests EXCEPT ![1] = @ + 1]
         /\ last_request' = Request("POST", "conversations", None, None)
         /\ last_resp' = LogKind(resp)
         /\ last_id' = resp.sId
         /\ seen' = seen \cup {LogKind(resp)}
         /\ IF Raises(resp)
            THEN /\ raised' = "TypeError"
                 /\ ret' = ret
                 /\ pc' = "end"
            ELSE /\ raised' = raised
                 /\ ret' = [ret EXCEPT ![1] = CreateResult(resp)]
                 /\ pc' = "ret1"
    /\ UNCHANGED <<max_retries, conversation_id, user_message_id, agent_message_id,
                   attempt, messages_store, user_message_found, events,
                   full_content, delays, marker_seen, fetched, posts, session>>

CreateConversation == CreateConversationOn(PostResponses(ConvIds))

CreateConversationOdd == CreateConversationOn(OddPostResponses)

\* the test: success, conversation_id, error = create_conversation(query);
\* on success it calls send_message
TestAfterCreate ==
    /\ pc = "ret1"
    /\ conversation_id' = ret[1].value
    /\ pc' = IF ret[1].ok THEN "send" ELSE "end"
    /\ last_resp' = IF ret[1].ok THEN "none" ELSE last_resp
    /\ seen' = IF ret[1].ok THEN {} ELSE seen
    /\ UNCHANGED <<max_retries, user_message_id, agent_message_id, ret, requests,
                   attempt, messages_store, user_message_found, events,
                   full_content, delays, marker_seen, raised, fetched, posts,
                   last_request, last_id, session>>

\* send_message(conversation_id, query): one POST, then a return, or a
\* TypeError that goes through the caller
SendMessageOn(responses) ==
    /\ pc = "send"
    /\ \E resp \in responses :
         /\ requests' = [requests EXCEPT ![2] = @ + 1]
         /\ posts' = posts + 1
         /\ last_request' = Request("POST", "messages", conversation_id, None)
         /\ last_resp' = LogKind(resp)
         /\ last_id' = resp.sId
         /\ seen' = seen \cup {LogKind(resp)}
         /\ IF Raises(resp)
            THEN /\ raised' = "TypeError"
                 /\ ret' = ret
                 /\ pc' = "end"
            ELSE /\ raised' = raised
                 /\ ret' = [ret EXCEPT ![2] = SendResult(resp)]
                 /\ pc' = "ret2"
    /\ UNCHANGED <<max_retries, conversation_id, user_message_id, agent_message_id,
                   attempt, messages_store, user_message_found, events,
                   full_content, delays, marker_seen, fetched, session>>

SendMessage == SendMessageOn(PostResponses(SentIds))

SendMessageOdd == SendMessageOn(OddPostResponses)

\* the test: on success it calls get_agent_message, whose locals start as
\* agent_message_id = None, user_message_found = False, messages_store = []
TestAfterSend ==
    /\ pc = "ret2"
    /\ user_message_id' = ret[2].value
    /\ pc' = IF ret[2].ok THEN "locate" ELSE "end"
    /\ last_resp' = IF ret[2].ok THEN "none" ELSE last_resp
    /\ seen' = IF ret[2].ok THEN {} ELSE seen
    /\ attempt' = 0
    /\ messages_store' = <<>>
    /\ user_message_found' = FALSE
    /\ delays' = <<>>
    /\ fetched' = {}
    /\ UNCHANGED <<max_retries, conversation_id, agent_message_id, ret, requests,
                   events, full_content, marker_seen, raised, posts,
                   last_request, last_id, session>>

\* get_agent_message: one iteration of for attempt in range(max_retries)
GetAgentMessageOn(responses) ==
    /\ pc = "locate"
    /\ LoopRuns(attempt, max_retries)
    /\ \E resp \in responses :
         /\ requests' = [requests EXCEPT ![3] = @ + 1]
         /\ last_request' = Request("GET", "conversation", conversation_id, None)
         /\ last_resp' = LogKind(resp)
         /\ seen' = seen \cup {LogKind(resp)}
         /\ IF Raises(resp)
            THEN /\ raised' = "TypeError"
                 /\ pc' = "end"
                 /\ UNCHANGED <<attempt, messages_store, user_message_found,
                                delays, ret, fetched>>
            ELSE \E l \in {LocatorAttempt([attempt |-> attempt, store |-> messages_store,
                                           found |-> user_message_found,
                                           delays |-> delays, ret |-> Pending],
                                          user_message_id, resp)} :
                   /\ raised' = raised
                   /\ fetched' = fetched \cup Fetched(resp)
                   /\ attempt' = l.attempt
                   /\ messages_store' = l.store
                   /\ user_message_found' = l.found
                   /\ delays' = l.delays
                   /\ ret' = [ret EXCEPT ![3] = l.ret]
                   /\ pc' = IF l.ret.done THEN "ret3" ELSE pc
    /\ UNCHANGED <<max_retries, conversation_id, user_message_id, agent_message_id,
                   events, full_content, marker_seen, posts, last_id, session>>

GetAgentMessageAttempt == GetAgentMessageOn(LocatorResponses)

GetAgentMessageOdd == GetAgentMessageOn(OddLocatorResponses)

\* get_agent_message: the loop is over without a return
GetAgentMessageExhausted ==
    /\ pc = "locate"
    /\ ~LoopRuns(attempt, max_retries)
    /\ ret' = [ret EXCEPT ![3] = LocatorTimeout(max_retries)]
    /\ pc' = "ret3"
    /\ UNCHANGED <<max_retries, conversation_id, user_message_id, agent_message_id,
                   requests, attempt, messages_store, user_message_found, events,
                   full_content, delays, last_resp, seen, marker_seen, raised,
                   fetched, posts, last_request, last_id, session>>

\* the test: on success it calls get_agent_response; the locals of
\* get_agent_message are gone
TestAfterLocate ==
    /\ pc = "ret3"
    /\ agent_message_id' = ret[3].value
    /\ pc' = IF ret[3].ok THEN "respond" ELSE "end"
    /\ last_resp' = IF ret[3].ok THEN "none" ELSE last_resp
    /\ seen' = IF ret[3].ok THEN {} ELSE seen
    /\ delays' = IF ret[3].ok THEN <<>> ELSE delays
    /\ attempt' = IF ret[3].ok THEN 0 ELSE attempt
    /\ messages_store' = IF ret[3].ok THEN <<>> ELSE messages_store
    /\ user_message_found' = IF ret[3].ok THEN FALSE ELSE user_message_found
    /\ fetched' = IF ret[3].ok THEN {} ELSE fetched
    /\ UNCHANGED <<max_retries, conversation_id, user_message_id, ret, requests,
                   events, full_content, marker_seen, raised, posts,
                   last_request, last_id, session>>

\* get_agent_response: one iteration of for attempt in range(max_retries)
GetAgentResponseOn(responses) ==
    /\ pc = "respond"
    /\ LoopRuns(attempt, max_retries)
    /\ \E resp \in responses :
         /\ requests' = [requests EXCEPT ![4] = @ + 1]
         /\ last_request' = Request("GET", "events", conversation_id, agent_message_id)
         /\ last_resp' = LogKind(resp)
         /\ seen' = seen \cup {LogKind(resp)}
         /\ marker_seen' = (marker_seen \/ (LogKind(resp) = "body" /\ HasMarker(resp.events)))
         /\ IF Raises(resp)
            THEN /\ raised' = "TypeError"
                 /\ pc' = "end"
                 /\ UNCHANGED <<attempt, events, full_content, delays, ret>>
            ELSE \E l \in {AggregatorAttempt([attempt |-> attempt, events |-> events,
                                              full_content |-> full_content,
                                              delays |-> delays, ret |-> Pending],
                                             resp)} :
                   /\ raised' = raised
                   /\ attempt' = l.attempt
                   /\ events' = l.events
                   /\ full_content' = l.full_content
                   /\ delays' = l.delays
                   /\ ret' = [ret EXCEPT ![4] = l.ret]
                   /\ pc' = IF l.ret.done THEN "ret4" ELSE pc
    /\ UNCHANGED <<max_retries, conversation_id, user_message_id, agent_message_id,
                   messages_store, user_message_found, fetched, posts, last_id,
                   session>>

GetAgentResponseAttempt == GetAgentResponseOn(AggregatorResponses)

GetAgentResponseOdd == GetAgentResponseOn(OddAggregatorResponses)

\* get_agent_response: the loop is over without a return
GetAgentResponseExhausted ==
    /\ pc = "respond"
    /\ ~LoopRuns(attempt, max_retries)
    /\ ret' = [ret EXCEPT ![4] = AggregatorTimeout(max_retries)]
    /\ pc' = "ret4"
    /\ UNCHANGED <<max_retries, conversation_id, user_message_id, agent_message_id,
                   requests, attempt, messages_store, user_message_found, events,
                   full_content, delays, last_resp, seen, marker_seen, raised,
                   fetched, posts, last_request, last_id, session>>

\* the test: logs the response and ends
TestAfterResponse ==
    /\ pc = "ret4"
    /\ pc' = "end"
    /\ UNCHANGED <<max_retries, conversation_id, user_message_id, agent_message_id,
                   ret, requests, attempt, messages_store, user_message_found,
                   events, full_content, delays, last_resp, seen, marker_seen,
                   raised, fetched, posts, last_request, last_id, session>>

Next ==
    \/ CreateConversation
    \/ TestAfterCreate
    \/ SendMessage
    \/ TestAfterSend
    \/ GetAgentMessageAttempt
    \/ GetAgentMessageExhausted
    \/ TestAfterLocate
    \/ GetAgentResponseAttempt
    \/ GetAgentResponseExhausted
    \/ TestAfterResponse

Spec == Init /\ [][Next]_vars

\* the client against bodies of every shape
NextBodies ==
    \/ Next
    \/ CreateConversationOdd
    \/ SendMessageOdd
    \/ GetAgentMessageOdd
    \/ GetAgentResponseOdd

SpecBodies == Init /\ [][NextBodies]_vars

\* --------------------------------------- actions of the tool (server.py)

\* dust_systems_thinking(query, new_conversation) up to its first request:
\* the environment is read and tested, and Step 1 is entered or passed over.
\* ret, requests, posts, delays start anew with the invocation.
ToolInvoke ==
    /\ pc = "idle"
    /\ \E nc \in BOOLEAN :
         /\ new_conversation' = nc
         /\ IF ~ConfigPresent(env)
            THEN /\ payload' = ErrorPayload(0, "Missing required environment variables")
                 /\ pc' = "idle"
            ELSE /\ payload' = NoPayload
                 /\ pc' = IF NeedsCreate(nc, CONVERSATION_ID) THEN "step1" ELSE "step2"
    /\ ret' = [s \in Stages |-> Pending]
    /\ requests' = [s \in Stages |-> 0]
    /\ posts' = 0
    /\ attempt' = 0
    /\ delays' = <<>>
    /\ user_message_id' = None
    /\ agent_message_id' = None
    /\ last_resp' = "none"
    /\ last_request' = NoRequest
    /\ UNCHANGED <<max_retries, CONVERSATION_ID, LAST_MESSAGE_ID, env, client, invocations>>

\* Step 1: one POST conversations; CONVERSATION_ID is assigned on success
ToolStep1 ==
    /\ pc = "step1"
    /\ \E resp \in ToolCreateResponses :
       \E r \in {ToolCreateResult(resp)} :
         /\ requests' = [requests EXCEPT ![1] = @ + 1]
         /\ last_request' = Request("POST", "conversations", None, None)
         /\ last_resp' = LogKind(resp)
         /\ ret' = [ret EXCEPT ![1] = r]
         /\ CONVERSATION_ID' = ConversationIdAfterCreate(r, CONVERSATION_ID)
         /\ payload' = IF r.ok THEN payload ELSE ToolError(r)
         /\ pc' = NextStep("step2", r)
    /\ UNCHANGED <<max_retries, user_message_id, agent_message_id, attempt, delays,
                   posts, LAST_MESSAGE_ID, env, new_conversation, client, invocations>>

\* Step 2: one POST messages into CONVERSATION_ID; nothing assigns
\* LAST_MESSAGE_ID
ToolStep2 ==
    /\ pc = "step2"
    /\ \E resp \in ToolSendResponses :
       \E r \in {ToolSendResult(resp)} :
         /\ requests' = [requests EXCEPT ![2] = @ + 1]
         /\ posts' = posts + 1
         /\ last_request' = Request("POST", "messages", CONVERSATION_ID, None)
         /\ last_resp' = LogKind(resp)
         /\ ret' = [ret EXCEPT ![2] = r]
         /\ user_message_id' = IF r.ok THEN r.value ELSE user_message_id
         /\ payload' = IF r.ok THEN payload ELSE ToolError(r)
         /\ pc' = NextStep("step3", r)
    /\ UNCHANGED <<max_retries, agent_message_id, attempt, delays, CONVERSATION_ID,
                   LAST_MESSAGE_ID, env, new_conversation, client, invocations>>

\* Step 3: one iteration of for attempt in range(max_retries): a POST to the
\* url of Step 2 with the retrieval payload, then the scan of the page
ToolStep3Attempt ==
    /\ pc = "step3"
    /\ LoopRuns(attempt, max_retries)
    /\ \E resp \in ToolMessagesResponses :
       \E r \in {ToolLocate(resp, user_message_id)} :
         /\ requests' = [requests EXCEPT ![3] = @ + 1]
         /\ posts' = posts + 1
         /\ last_request' = Request("POST", "messages", CONVERSATION_ID, None)
         /\ last_resp' = LogKind(resp)
         /\ ret' = [ret EXCEPT ![3] = r]
         /\ agent_message_id' = IF r.ok THEN r.value ELSE agent_message_id
         /\ payload' = IF r.done /\ ~r.ok THEN ToolError(r) ELSE payload
         /\ attempt' = IF r.ok THEN 0 ELSE IF r.done THEN attempt ELSE attempt + 1
         /\ delays' = IF r.done THEN delays ELSE Append(delays, 1)
         /\ pc' = IF r.done THEN NextStep("step4", r) ELSE pc
    /\ UNCHANGED <<max_retries, user_message_id, CONVERSATION_ID, LAST_MESSAGE_ID,
                   env, new_conversation, client, invocations>>

\* Step 3: the loop is over and agent_message_id is still None
ToolStep3Exhausted ==
    /\ pc = "step3"
    /\ ~LoopRuns(attempt, max_retries)
    /\ ret' = [ret EXCEPT ![3] = LocatorTimeout(max_retries)]
    /\ payload' = ToolError(LocatorTimeout(max_retries))
    /\ pc' = "idle"
    /\ UNCHANGED <<max_retries, user_message_id, agent_message_id, requests, attempt,
                   delays, last_resp, posts, last_request, CONVERSATION_ID,
                   LAST_MESSAGE_ID, env, new_conversation, client, invocations>>

\* Step 4: one iteration of for attempt in range(max_retries): GET events of
\* agent_message_id
ToolStep4Attempt ==
    /\ pc = "step4"
    /\ LoopRuns(attempt, max_retries)
    /\ \E resp \in ToolEventsResponses :
       \E r \in {ToolAggregate(resp)} :
         /\ requests' = [requests EXCEPT ![4] = @ + 1]
         /\ last_request' = Request("GET", "events", CONVERSATION_ID, agent_message_id)
         /\ last_resp' = LogKind(resp)
         /\ ret' = [ret EXCEPT ![4] = r]
         /\ payload' = IF r.ok THEN ResponsePayload(r.value)
                       ELSE IF r.done THEN ToolError(r) ELSE payload
         /\ attempt' = IF r.done THEN attempt ELSE attempt + 1
         /\ delays' = IF r.done THEN delays ELSE Append(delays, 1)
         /\ pc' = IF r.done THEN "idle" ELSE pc
    /\ UNCHANGED <<max_retries, user_message_id, agent_message_id, posts,
                   CONVERSATION_ID, LAST_MESSAGE_ID, env, new_conversation, client, invocations>>

\* Step 4: the loop is over without a return
ToolStep4Exhausted ==
    /\ pc = "step4"
    /\ ~LoopRuns(attempt, max_retries)
    /\ ret' = [ret EXCEPT ![4] = AggregatorTimeout(max_retries)]
    /\ payload' = ToolError(AggregatorTimeout(max_retries))
    /\ pc' = "idle"
    /\ UNCHANGED <<max_retries, user_message_id, agent_message_id, requests, attempt,
                   delays, last_resp, posts, last_request, CONVERSATION_ID,
                   LAST_MESSAGE_ID, env, new_conversation, client, invocations>>

NextServer ==
    \/ ToolInvoke
    \/ ToolStep1
    \/ ToolStep2
    \/ ToolStep3Attempt
    \/ ToolStep3Exhausted
    \/ ToolStep4Attempt
    \/ ToolStep4Exhausted

SpecServer == InitServer /\ [][NextServer]_vars

\* ------------------------------ invocations of the tool running side by side

\* the invocations that can be in flight at once
Threads == {1, 2}

\* no url built yet
NoUrl == "no url"

\* The locals of one invocation of dust_systems_thinking; they are gone when
\* it returns. held: the CONVERSATION_ID that line 101 tested; created: the
\* id Step 1 assigned, NoUrl if it assigned none; url[s]: the conversation id
\* in the url of Step s (message_url, conversation_messages_url, events_url);
\* overwritten: another invocation has assigned CONVERSATION_ID since this
\* one was called.
IdleInvocation ==
    [ pc |-> "idle", held |-> None, created |-> NoUrl,
      url |-> [s \in 2..4 |-> NoUrl],
      user_message_id |-> None, agent_message_id |-> None, attempt |-> 0,
      overwritten |-> FALSE ]

\* The process of server.py with no invocation in flight.
InitThreads ==
    /\ pc = "idle"
    /\ max_retries = MaxRetries
    /\ conversation_id = None
    /\ user_message_id = None
    /\ agent_message_id = None
    /\ ret = [s \in Stages |-> Pending]
    /\ requests = [s \in Stages |-> 0]
    /\ attempt = 0
    /\ messages_store = <<>>
    /\ user_message_found = FALSE
    /\ events = <<>>
    /\ full_content = <<>>
    /\ delays = <<>>
    /\ last_resp = "none"
    /\ seen = {}
    /\ marker_seen = FALSE
    /\ raised = "none"
    /\ fetched = {}
    /\ posts = 0
    /\ last_request = NoRequest
    /\ last_id = None
    /\ CONVERSATION_ID = None
    /\ LAST_MESSAGE_ID = None
    /\ env = TestEnv
    /\ new_conversation = FALSE
    /\ payload = NoPayload
    /\ invocations = [i \in Threads |-> IdleInvocation]

\* what the invocations running side by side leave alone
sequential == <<pc, max_retries, user_message_id, agent_message_id, ret, requests,
                attempt, delays, last_resp, posts, last_request, LAST_MESSAGE_ID,
                env, new_conversation, payload, client>>

\* invocation i goes to pc, or returns when pc is "idle"
Proceed(inv, next) == IF next = "idle" THEN IdleInvocation ELSE [inv EXCEPT !.pc = next]

\* a call of the tool while others may be in flight: lines 79-101
ThreadInvoke(i) ==
    /\ invocations[i].pc = "idle"
    /\ \E nc \in BOOLEAN :
         invocations' = [invocations EXCEPT ![i] =
             IF ~ConfigPresent(env) THEN IdleInvocation
             ELSE [IdleInvocation EXCEPT
                     !.held = CONVERSATION_ID,
                     !.pc = IF NeedsCreate(nc, CONVERSATION_ID) THEN "step1" ELSE "step2"]]
    /\ UNCHANGED <<CONVERSATION_ID, sequential>>

\* Step 1 of invocation i; its assignment to the global is seen by every
\* invocation that builds a url afterwards
ThreadStep1(i) ==
    /\ invocations[i].pc = "step1"
    /\ \E r \in {ToolCreateResult(resp) : resp \in PostResponses(ToolConvIds)} :
         /\ CONVERSATION_ID' = ConversationIdAfterCreate(r, CONVERSATION_ID)
         /\ invocations' = [j \in Threads |->
              IF j = i
              THEN Proceed([invocations[i] EXCEPT
                              !.created = IF r.ok THEN r.value ELSE @],
                           NextStep("step2", r))
              ELSE IF r.ok /\ invocations[j].pc # "idle"
                   THEN [invocations[j] EXCEPT !.overwritten = TRUE]
                   ELSE invocations[j]]
    /\ UNCHANGED sequential

\* Step 2 of invocation i: message_url is built from the global (line 139),
\* then the POST
ThreadStep2(i) ==
    /\ invocations[i].pc = "step2"
    /\ \E r \in {ToolSendResult(resp) : resp \in ToolSendResponses} :
         invocations' = [invocations EXCEPT ![i] =
             Proceed([@ EXCEPT !.url[2] = CONVERSATION_ID,
                               !.user_message_id = IF r.ok THEN r.value ELSE @],
                     NextStep("step3", r))]
    /\ UNCHANGED <<CONVERSATION_ID, sequential>>

\* Step 3 of invocation i: conversation_messages_url is built from the global
\* once, before the loop (line 201); every attempt posts to it
ThreadStep3Attempt(i) ==
    /\ invocations[i].pc = "step3"
    /\ LoopRuns(invocations[i].attempt, max_retries)
    /\ \E r \in {ToolLocate(resp, invocations[i].user_message_id) :
                    resp \in ToolMessagesResponses} :
         invocations' = [invocations EXCEPT ![i] =
             Proceed([@ EXCEPT
                        !.url[3] = IF invocations[i].attempt = 0
                                   THEN CONVERSATION_ID ELSE @,
                        !.agent_message_id = IF r.ok THEN r.value ELSE @,
                        !.attempt = IF r.ok THEN 0
                                    ELSE IF r.done THEN @ ELSE @ + 1],
                     IF r.done THEN NextStep("step4", r) ELSE "step3")]
    /\ UNCHANGED <<CONVERSATION_ID, sequential>>

\* Step 3 of invocation i: the loop is over and agent_message_id is still None
ThreadStep3Exhausted(i) ==
    /\ invocations[i].pc = "step3"
    /\ ~LoopRuns(invocations[i].attempt, max_retries)
    /\ invocations' = [invocations EXCEPT ![i] = IdleInvocation]
    /\ UNCHANGED <<CONVERSATION_ID, sequential>>

\* Step 4 of invocation i: events_url is built from the global once, before
\* the loop (line 282); every attempt gets it
ThreadStep4Attempt(i) ==
    /\ invocations[i].pc = "step4"
    /\ LoopRuns(invocations[i].attempt, max_retries)
    /\ \E r \in {ToolAggregate(resp) : resp \in ToolEventsResponses} :
         invocations' = [invocations EXCEPT ![i] =
             Proceed([@ EXCEPT
                        !.url[4] = IF invocations[i].attempt = 0
                                   THEN CONVERSATION_ID ELSE @,
                        !.attempt = IF r.done THEN @ ELSE @ + 1],
                     IF r.done THEN "idle" ELSE "step4")]
    /\ UNCHANGED <<CONVERSATION_ID, sequential>>

\* Step 4 of invocation i: the loop is over without a return
ThreadStep4Exhausted(i) ==
    /\ invocations[i].pc = "step4"
    /\ ~LoopRuns(invocations[i].attempt, max_retries)
    /\ invocations' = [invocations EXCEPT ![i] = IdleInvocation]
    /\ UNCHANGED <<CONVERSATION_ID, sequential>>

NextThreads ==
    \E i \in Threads :
        \/ ThreadInvoke(i)
        \/ ThreadStep1(i)
        \/ ThreadStep2(i)
        \/ ThreadStep3Attempt(i)
        \/ ThreadStep3Exhausted(i)
        \/ ThreadStep4Attempt(i)
        \/ ThreadStep4Exhausted(i)

SpecThreads == InitThreads /\ [][NextThreads]_vars

\* ------------------------------------------------- the shutdown signal

\* signal_handler, run for a SIGINT that arrives while the tool sleeps
\* between two attempts of Step 3 or Step 4: exit(0) raises SystemExit out of
\* time.sleep. SystemExit is no Exception, so neither the except clauses of
\* the stages nor the one of line 339 catch it: the tool returns nothing and
\* the process ends.
signal_handler ==
    /\ pc \in {"step3", "step4"}
    /\ attempt >= 1
    /\ raised' = "SystemExit"
    /\ pc' = "exit"
    /\ UNCHANGED <<max_retries, conversation_id, user_message_id, agent_message_id,
                   ret, requests, attempt, messages_store, user_message_found,
                   events, full_content, delays, last_resp, seen, marker_seen,
                   fetched, posts, last_request, last_id, session>>

NextSignal ==
    \/ NextServer
    \/ signal_handler

\* a session of invocations of the tool in a process that can get a SIGINT
SpecSignal == InitServer /\ [][NextSignal]_vars

\* ------------------------------------- the test against a remote that answers

\* the id the remote gives the posted message
ScenarioSentIds == {"msg_1"}

\* the two messages of the conversation: the posted one and the agent's
ScenarioUserMessage ==
    [sId |-> "msg_1", created |-> 1, rank |-> NoKey, author_type |-> "user", type |-> "user_message"]
ScenarioAgentMessage ==
    [sId |-> "msg_2", created |-> 2, rank |-> NoKey, author_type |-> "assistant", type |-> "agent_message"]
ScenarioMessages == {ScenarioUserMessage, ScenarioAgentMessage}

\* Responses to GET conversation: errors, a body of another shape, and pages
\* of the two messages in both body shapes
ScenarioLocatorResponses ==
    { [kind |-> "transport", shape |-> "none", content |-> <<>>, messages |-> <<>>],
      [kind |-> "http", shape |-> "none", content |-> <<>>, messages |-> <<>>],
      [kind |-> "ok", shape |-> "other", content |-> <<>>, messages |-> <<>>] }
    \cup { [kind |-> "ok", shape |-> "content", content |-> AsContent(p), messages |-> <<>>] :
             p \in SeqsUpTo(ScenarioMessages, MaxPage) }
    \cup { [kind |-> "ok", shape |-> "messages", content |-> <<>>, messages |-> p] :
             p \in SeqsUpTo(ScenarioMessages, MaxPage) }

\* the two events of the agent's message: one fragment, then the marker
ScenarioFragment == [block |-> "content", content |-> "Hi", type |-> "content"]
ScenarioMarker == [block |-> "absent", content |-> NoStr, type |-> "generation-complete"]
ScenarioEvents == {ScenarioFragment, ScenarioMarker}

\* Responses to GET events: errors, a body without events, and lists of the
\* two events
ScenarioAggregatorResponses ==
    { [kind |-> "transport", shape |-> "none", events |-> <<>>],
      [kind |-> "http", shape |-> "none", events |-> <<>>],
      [kind |-> "ok", shape |-> "other", events |-> <<>>] }
    \cup { [kind |-> "ok", shape |-> "events", events |-> e] :
             e \in SeqsUpTo(ScenarioEvents, MaxEvents) }

\* test_message_retrieval against this remote
NextScenario ==
    \/ CreateConversation
    \/ TestAfterCreate
    \/ SendMessageOn(PostResponses(ScenarioSentIds))
    \/ TestAfterSend
    \/ GetAgentMessageOn(ScenarioLocatorResponses)
    \/ GetAgentMessageExhausted
    \/ TestAfterLocate
    \/ GetAgentResponseOn(ScenarioAggregatorResponses)
    \/ GetAgentResponseExhausted
    \/ TestAfterResponse

SpecScenario == Init /\ [][NextScenario]_vars

\* --------------------------------------- get_agent_message called on its own

\* get_agent_message(conversation_id, user_message_id, query, max_retries) on
\* entry, called with the ids of a conversation and of a message posted in
\* it, and with one of the budgets as max_retries
InitLocator(budgets) ==
    /\ pc = "locate"
    /\ max_retries \in budgets
    /\ conversation_id = "conv_1"
    /\ user_message_id = "m2"
    /\ agent_message_id = None
    /\ ret = [s \in Stages |-> Pending]
    /\ requests = [s \in Stages |-> 0]
    /\ attempt = 0
    /\ messages_store = <<>>
    /\ user_message_found = FALSE
    /\ events = <<>>
    /\ full_content = <<>>
    /\ delays = <<>>
    /\ last_resp = "none"
    /\ seen = {}
    /\ marker_seen = FALSE
    /\ raised = "none"
    /\ fetched = {}
    /\ posts = 0
    /\ last_request = NoRequest
    /\ last_id = None
    /\ CONVERSATION_ID = None
    /\ LAST_MESSAGE_ID = None
    /\ env = TestEnv
    /\ new_conversation = FALSE
    /\ payload = NoPayload
    /\ invocations = <<>>

\* Responses of a remote where the agent has not answered yet: errors, a body
\* of another shape, and pages of at most one message, the posted one or one
\* from before it
BackoffResponses ==
    { [kind |-> "transport", shape |-> "none", content |-> <<>>, messages |-> <<>>],
      [kind |-> "http", shape |-> "none", content |-> <<>>, messages |-> <<>>],
      [kind |-> "ok", shape |-> "other", content |-> <<>>, messages |-> <<>>] }
    \cup { [kind |-> "ok", shape |-> "content", content |-> AsContent(p), messages |-> <<>>] :
             p \in SeqsUpTo({m \in Messages : m.sId \in {"m1", "m2"}}, 1) }
    \cup { [kind |-> "ok", shape |-> "messages", content |-> <<>>, messages |-> p] :
             p \in SeqsUpTo({m \in Messages : m.sId \in {"m1", "m2"}}, 1) }

NextBackoff ==
    \/ GetAgentMessageOn(BackoffResponses)
    \/ GetAgentMessageExhausted

SpecBackoff == InitLocator(0..MaxBackoffRetries) /\ [][NextBackoff]_vars

\* Messages with one of the two ordering keys or with neither; none of them
\* is the posted one or the agent's.
OrderingMessages ==
    { [sId |-> "a", created |-> NoKey, rank |-> 2, author_type |-> "user", type |-> "user_message"],
      [sId |-> "b", created |-> 2, rank |-> NoKey, author_type |-> "user", type |-> "user_message"],
      [sId |-> "c", created |-> 1, rank |-> NoKey, author_type |-> "user", type |-> "user_message"],
      [sId |-> "d", created |-> NoKey, rank |-> 1, author_type |-> "user", type |-> "user_message"],
      [sId |-> "e", created |-> NoKey, rank |-> NoKey, author_type |-> "user", type |-> "user_message"] }

\* Responses to GET conversation with pages of these messages
OrderingResponses ==
    { [kind |-> "ok", shape |-> "content", content |-> AsContent(p), messages |-> <<>>] :
        p \in SeqsUpTo(OrderingMessages, MaxPage) }
    \cup { [kind |-> "ok", shape |-> "messages", content |-> <<>>, messages |-> p] :
             p \in SeqsUpTo(OrderingMessages, MaxPage) }

NextOrdering ==
    \/ GetAgentMessageOn(OrderingResponses)
    \/ GetAgentMessageExhausted

SpecOrdering == InitLocator(0..MaxRetries) /\ [][NextOrdering]_vars

\* ------------- the tool's polling stages and the client's, on the same answers

\* The messages the remote can list, with every key either side reads. author
\* is author.type (NoStr: none), author_type the top-level "author_type"
\* (NoStr: none), created_at = FALSE: no "created_at" key.
RemoteMessages ==
    { [sId |-> "m2", created |-> 2, rank |-> NoKey, created_at |-> TRUE,
       author |-> "user", author_type |-> "user", type |-> "user_message"],
      [sId |-> "m3", created |-> 3, rank |-> NoKey, created_at |-> TRUE,
       author |-> NoStr, author_type |-> "agent", type |-> "agent_message"],
      [sId |-> "m4", created |-> 3, rank |-> NoKey, created_at |-> FALSE,
       author |-> "assistant", author_type |-> NoStr, type |-> NoStr],
      [sId |-> "m5", created |-> 3, rank |-> NoKey, created_at |-> TRUE,
       author |-> NoStr, author_type |-> "agent", type |-> NoStr] }

\* what get_agent_message reads of a message: sId, created, rank, author.type
\* and type
ClientMessage(m) ==
    [sId |-> m.sId, created |-> m.created, rank |-> m.rank,
     author_type |-> m.author, type |-> m.type]

\* what Step 3 reads of a message: sId, created_at and author_type
ToolMessage(m) ==
    [sId |-> m.sId, created_at |-> m.created_at, author_type |-> m.author_type]

\* The answers of the remote to a poll for the messages: an error, a body
\* with neither key, {"conversation": {"content": ..}} or {"messages": ..}.
RemoteMessagesResponses ==
    { [kind |-> "transport", shape |-> "none", page |-> <<>>],
      [kind |-> "http", shape |-> "none", page |-> <<>>],
      [kind |-> "ok", shape |-> "other", page |-> <<>>] }
    \cup { [kind |-> "ok", shape |-> s, page |-> p] :
             s \in {"content", "messages"}, p \in SeqsUpTo(RemoteMessages, MaxPage) }

\* the answer as get_agent_message reads it
ClientMessagesResponse(resp) ==
    LET page == [i \in 1..Len(resp.page) |-> ClientMessage(resp.page[i])] IN
    [kind |-> resp.kind, shape |-> resp.shape,
     content |-> IF resp.shape = "content" THEN AsContent(page) ELSE <<>>,
     messages |-> IF resp.shape = "messages" THEN page ELSE <<>>]

\* the answer as Step 3 reads it: a body without "messages" has no messages
ToolMessagesResponse(resp) ==
    [kind |-> resp.kind,
     shape |-> IF resp.shape = "content" THEN "other" ELSE resp.shape,
     messages |-> IF resp.shape = "messages"
                  THEN [i \in 1..Len(resp.page) |-> ToolMessage(resp.page[i])]
                  ELSE <<>>]

\* The events the remote can list, with every key either side reads. block
\* and block_content are "contentBlock" and its "content", has_content and
\* content the top-level "content".
RemoteEvents ==
    { [type |-> "content", block |-> "content", block_content |-> "Hi",
       has_content |-> FALSE, content |-> NoStr, status |-> NoStr],
      [type |-> "content_block", block |-> "absent", block_content |-> NoStr,
       has_content |-> TRUE, content |-> "Hi", status |-> NoStr],
      [type |-> "content_block", block |-> "content", block_content |-> "Hi",
       has_content |-> TRUE, content |-> "Hi", status |-> NoStr],
      [type |-> "generation-complete", block |-> "absent", block_content |-> NoStr,
       has_content |-> FALSE, content |-> NoStr, status |-> NoStr],
      [type |-> "status", block |-> "absent", block_content |-> NoStr,
       has_content |-> FALSE, content |-> NoStr, status |-> "completed"] }

\* what get_agent_response reads of an event: contentBlock.content and type
ClientEvent(e) == [block |-> e.block, content |-> e.block_content, type |-> e.type]

\* what Step 4 reads of an event: type, content and status
ToolEvent(e) ==
    [type |-> e.type, has_content |-> e.has_content, content |-> e.content,
     status |-> e.status]

\* The answers of the remote to GET events.
RemoteEventsResponses ==
    { [kind |-> "transport", shape |-> "none", events |-> <<>>],
      [kind |-> "http", shape |-> "none", events |-> <<>>],
      [kind |-> "ok", shape |-> "other", events |-> <<>>] }
    \cup { [kind |-> "ok", shape |-> "events", events |-> e] :
             e \in SeqsUpTo(RemoteEvents, MaxEvents) }

\* the answer as get_agent_response reads it
ClientEventsResponse(resp) ==
    [kind |-> resp.kind, shape |-> resp.shape,
     events |-> [i \in 1..Len(resp.events) |-> ClientEvent(resp.events[i])]]

\* the answer as Step 4 reads it
ToolEventsResponse(resp) ==
    [kind |-> resp.kind, shape |-> resp.shape,
     events |-> [i \in 1..Len(resp.events) |-> ToolEvent(resp.events[i])]]

\* Each side of the comparison: [pc, locals, ret, requests]. pc is "locate",
\* "respond" or "returned"; ret and requests are per polling stage.
PollingStages == {3, 4}

\* the locals of get_agent_message when it is entered
LocatorLocals ==
    [attempt |-> 0, store |-> <<>>, found |-> FALSE, delays |-> <<>>, ret |-> Pending]

\* the locals of get_agent_response when it is entered
AggregatorLocals ==
    [attempt |-> 0, events |-> <<>>, full_content |-> <<>>, delays |-> <<>>,
     ret |-> Pending]

\* the locals of a polling loop of the tool when it is entered
ToolLoopLocals == [attempt |-> 0, delays |-> <<>>, ret |-> Pending]

\* a side before its first poll
StartSide(locals) ==
    [pc |-> "locate", locals |-> locals,
     ret |-> [s \in PollingStages |-> Pending],
     requests |-> [s \in PollingStages |-> 0]]

\* the loop after an iteration: returned from, entered again, or run out
LoopOutcome(l, n, timeout) ==
    IF l.ret.done THEN l.ret
    ELSE IF LoopRuns(l.attempt, n) THEN Pending
    ELSE timeout

\* a side after one request of a stage: a found id takes it to the next
\* stage with fresh locals, any other return ends it
AfterRequest(side, stage, l, out, fresh) ==
    [pc |-> IF ~out.done THEN side.pc
            ELSE IF out.ok /\ stage = 3 THEN "respond"
            ELSE "returned",
     locals |-> IF out.ok /\ stage = 3 THEN fresh ELSE l,
     ret |-> [side.ret EXCEPT ![stage] = out],
     requests |-> [side.requests EXCEPT ![stage] = @ + 1]]

\* get_agent_message: one request and what follows it
ClientLocate(side, user_id, n, resp) ==
    LET l == LocatorAttempt(side.locals, user_id, ClientMessagesResponse(resp))
    IN AfterRequest(side, 3, l, LoopOutcome(l, n, LocatorTimeout(n)), AggregatorLocals)

\* Step 3: one request and what follows it
ToolLocateRequest(side, user_id, n, resp) ==
    LET r == ToolLocate(ToolMessagesResponse(resp), user_id)
        l == IF r.done THEN [side.locals EXCEPT !.ret = r]
             ELSE [side.locals EXCEPT !.attempt = @ + 1, !.delays = Append(@, 1)]
    IN AfterRequest(side, 3, l, LoopOutcome(l, n, LocatorTimeout(n)), ToolLoopLocals)

\* get_agent_response: one request and what follows it
ClientAggregate(side, n, resp) ==
    LET l == AggregatorAttempt(side.locals, ClientEventsResponse(resp))
    IN AfterRequest(side, 4, l, LoopOutcome(l, n, AggregatorTimeout(n)), l)

\* Step 4: one request and what follows it
ToolAggregateRequest(side, n, resp) ==
    LET r == ToolAggregate(ToolEventsResponse(resp))
        l == IF r.done THEN [side.locals EXCEPT !.ret = r]
             ELSE [side.locals EXCEPT !.attempt = @ + 1, !.delays = Append(@, 1)]
    IN AfterRequest(side, 4, l, LoopOutcome(l, n, AggregatorTimeout(n)), l)

\* Both sides after Step 2 / send_message, about to poll for the answer to
\* the same user message with the same budget (both default to 30).
InitSideBySide ==
    /\ pc = "locate"
    /\ max_retries = MaxRetries
    /\ conversation_id = "conv_1"
    /\ user_message_id = "m2"
    /\ agent_message_id = None
    /\ ret = [s \in Stages |-> Pending]
    /\ requests = [s \in Stages |-> 0]
    /\ attempt = 0
    /\ messages_store = <<>>
    /\ user_message_found = FALSE
    /\ events = <<>>
    /\ full_content = <<>>
    /\ delays = <<>>
    /\ last_resp = "none"
    /\ seen = {}
    /\ marker_seen = FALSE
    /\ raised = "none"
    /\ fetched = {}
    /\ posts = 0
    /\ last_request = NoRequest
    /\ last_id = None
    /\ CONVERSATION_ID = "conv_1"
    /\ LAST_MESSAGE_ID = None
    /\ env = TestEnv
    /\ new_conversation = FALSE
    /\ payload = NoPayload
    /\ invocations = [client |-> StartSide(LocatorLocals), tool |-> StartSide(ToolLoopLocals)]

\* everything but the two sides and the stage they are compared in
besides == <<max_retries, conversation_id, user_message_id, agent_message_id,
             ret, requests, attempt, messages_store, user_message_found, events,
             full_content, delays, seen, marker_seen, raised, fetched, posts,
             last_request, last_id, CONVERSATION_ID, LAST_MESSAGE_ID, env,
             new_conversation, payload>>

\* the stage the sides are compared in next
JointStage(sides) ==
    IF sides.client.pc = "locate" \/ sides.tool.pc = "locate" THEN "locate"
    ELSE IF sides.client.pc = "respond" \/ sides.tool.pc = "respond" THEN "respond"
    ELSE "returned"

\* The k-th answer of the remote to a poll for the messages goes to the k-th
\* request of each side that is still in its locate stage.
LocateSideBySide ==
    /\ pc = "locate"
    /\ \E resp \in RemoteMessagesResponses :
       \E sides \in {[client |-> IF invocations.client.pc = "locate"
                                 THEN ClientLocate(invocations.client, user_message_id,
                                                   max_retries, resp)
                                 ELSE invocations.client,
                      tool |-> IF invocations.tool.pc = "locate"
                               THEN ToolLocateRequest(invocations.tool, user_message_id,
                                                      max_retries, resp)
                               ELSE invocations.tool]} :
         /\ invocations' = sides
         /\ last_resp' = LogKind(resp)
         /\ pc' = JointStage(sides)
    /\ UNCHANGED besides

\* The k-th answer of the remote to GET events goes to the k-th request of
\* each side that got as far as its aggregate stage.
AggregateSideBySide ==
    /\ pc = "respond"
    /\ \E resp \in RemoteEventsResponses :
       \E sides \in {[client |-> IF invocations.client.pc = "respond"
                                 THEN ClientAggregate(invocations.client, max_retries, resp)
                                 ELSE invocations.client,
                      tool |-> IF invocations.tool.pc = "respond"
                               THEN ToolAggregateRequest(invocations.tool, max_retries, resp)
                               ELSE invocations.tool]} :
         /\ invocations' = sides
         /\ last_resp' = LogKind(resp)
         /\ pc' = JointStage(sides)
    /\ UNCHANGED besides

NextSideBySide ==
    \/ LocateSideBySide
    \/ AggregateSideBySide

SpecSideBySide == InitSideBySide /\ [][NextSideBySide]_vars

\* ----------------------------------------------------------------- claims

\* the position of the entry with this id in the store, 0 if there is none
PositionOf(store, id) ==
    IF HasId(store, id) THEN CHOOSE i \in 1..Len(store) : store[i].sId = id ELSE 0

\* j holds the first agent-authored entry placed after the entry with id uid
FirstAgentAfter(store, uid, j) ==
    /\ PositionOf(store, uid) > 0
    /\ j \in 1..Len(store)
    /\ PositionOf(store, uid) < j
    /\ IsAssistant(store[j])
    /\ \A k \in (PositionOf(store, uid) + 1)..(j - 1) : ~IsAssistant(store[k])

\* C1 (as claimed): whenever get_agent_message returns Success(id), id is the
\* id of the first agent-authored entry placed strictly after the entry with
\* user_message_id in the sorted accumulated list; an agent entry placed
\* before the user entry is never returned, on any attempt.
C1_ReturnsFirstAgentAfterUser ==
    (pc = "ret3" /\ ret[3].ok) =>
        \E j \in 1..Len(messages_store) :
            /\ messages_store[j].sId = ret[3].value
            /\ FirstAgentAfter(messages_store, user_message_id, j)

\* C2 (as claimed): a Success of get_agent_message never carries the id given
\* as user_message_id.
C2_NeverReturnsUserMessageId ==
    (pc = "ret3" /\ ret[3].ok) => ret[3].value # user_message_id

\* C3: get_agent_response returns Success only when the event list fetched in
\* the returning attempt holds a generation-complete event; while no fetched
\* list has held one, no attempt returns Success.
C3_SuccessNeedsMarker ==
    ret[4].ok => (HasMarker(events) /\ marker_seen)

\* C3: Success in an attempt after one whose list had fragments but no marker
C3_Witness ==
    /\ pc = "ret4"
    /\ ret[4].ok
    /\ attempt >= 1
    /\ HasMarker(events)

RECURSIVE TextOfFirst(_, _)
\* the fragments among the first k events, in order, with a newline between
\* neighbours
TextOfFirst(evs, k) ==
    IF k = 0 THEN ""
    ELSE IF evs[k].block # "content" THEN TextOfFirst(evs, k - 1)
    ELSE IF \E i \in 1..(k - 1) : evs[i].block = "content"
         THEN TextOfFirst(evs, k - 1) \o "\n" \o evs[k].content
         ELSE evs[k].content

\* C4: the text of a Success is the newline-join, in arrival order, of the
\* content fragments of the event list of the returning attempt, those after
\* the marker included, and of nothing else.
C4_TextIsJoinOfThisAttempt ==
    ret[4].ok => ret[4].value = TextOfFirst(events, Len(events))

\* C4: Success on a later attempt, with a fragment after the marker
C4_Witness ==
    /\ pc = "ret4"
    /\ ret[4].ok
    /\ attempt >= 1
    /\ \E i, j \in 1..Len(events) :
         /\ i < j
         /\ events[i].type = "generation-complete"
         /\ events[j].block = "content"
    /\ ret[4].value = " world\nHello"

\* C5: in get_agent_message a transport error or a status other than 200 does
\* not end the call: the attempt is counted, a sleep is taken and the loop
\* goes on; Failure is returned only when all max_retries attempts are used.
C5_LocatorRetriesErrors ==
    /\ []((ret[3].done /\ ~ret[3].ok) =>
            (attempt = max_retries /\ requests[3] = max_retries))
    /\ [][(pc = "locate" /\ requests'[3] = requests[3] + 1
              /\ last_resp' \in {"transport", "http"}) =>
            (/\ pc' = "locate"
             /\ ~ret'[3].done
             /\ attempt' = attempt + 1
             /\ Len(delays') = Len(delays) + 1
             /\ messages_store' = messages_store)]_vars

\* C5: Success in an attempt that follows a transport error and a status
\* other than 200
C5_Witness ==
    /\ pc = "ret3"
    /\ ret[3].ok
    /\ {"transport", "http"} \subseteq seen
    /\ attempt = 2

\* C6: in get_agent_response a transport or HTTP error returns a Failure of
\* stage 4 in the same attempt, and no request follows it.
C6_AggregatorErrorsFatal ==
    /\ [][(pc = "respond" /\ requests'[4] = requests[4] + 1
              /\ last_resp' \in {"transport", "http"}) =>
            (/\ pc' = "ret4"
             /\ ret'[4].done
             /\ ~ret'[4].ok
             /\ ret'[4].error.step = 4
             /\ delays' = delays)]_vars
    /\ [][ret[4].done => requests' = requests]_vars

\* C6: the error came in the second attempt, with attempts left in the budget
C6_Witness ==
    /\ pc = "ret4"
    /\ last_resp \in {"transport", "http"}
    /\ ~ret[4].ok
    /\ requests[4] = 2
    /\ max_retries = 3

\* C7 (as claimed): in every stage a body without the expected field makes
\* the stage return Failure at once, and the stage issues no request after it.
C7_ShapeErrorFatalEverywhere ==
    /\ [][\A s \in Stages :
            (requests'[s] = requests[s] + 1 /\ last_resp' = "shape") =>
                (ret'[s].done /\ ~ret'[s].ok)]_vars
    /\ [][\A s \in Stages : ret[s].done => requests'[s] = requests[s]]_vars

\* C7 (amended): in create_conversation, send_message and get_agent_response a
\* body without the expected field makes the stage return a Failure of its own
\* stage at once, with no request after it; in get_agent_message a body with
\* neither key is not fatal: the attempt is counted and the loop goes on at
\* once, without a sleep.
C7_ShapeErrorFatalButInLocator ==
    /\ [][\A s \in {1, 2, 4} :
            (requests'[s] = requests[s] + 1 /\ last_resp' = "shape") =>
                (ret'[s].done /\ ~ret'[s].ok /\ ret'[s].error.step = s)]_vars
    /\ [][(requests'[3] = requests[3] + 1 /\ last_resp' = "shape") =>
            (/\ pc' = "locate"
             /\ ~ret'[3].done
             /\ attempt' = attempt + 1
             /\ delays' = delays
             /\ messages_store' = messages_store)]_vars
    /\ [][\A s \in Stages : ret[s].done => requests'[s] = requests[s]]_vars

\* C7: get_agent_message returned Success after a body with neither key, and
\* without having slept
C7_Witness ==
    /\ pc = "ret3"
    /\ ret[3].ok
    /\ "shape" \in seen
    /\ delays = <<>>

C9_AggregatorTimesOut ==
    /\ requests[4] <= max_retries
    /\ (pc = "ret4" /\ seen \subseteq {"body"} /\ ~marker_seen) =>
          /\ requests[4] = max_retries
          /\ delays = [i \in 1..max_retries |-> 1]
          /\ ~ret[4].ok
          /\ ret[4].error.step = 4
          /\ ret[4].error.n = max_retries

\* C9: a timeout after two or more lists that had fragments but no marker
C9_Witness ==
    /\ pc = "ret4"
    /\ seen = {"body"}
    /\ ~marker_seen
    /\ max_retries >= 2
    /\ full_content # <<>>

\* C10: when the list of the first attempt, as the Locator orders it, has an
\* agent entry strictly after the user entry, get_agent_message returns the
\* id of the first such entry in that attempt: one request, no sleep.
C10_FoundOnFirstAttempt ==
    /\ [][(/\ pc = "locate"
           /\ requests[3] = 0
           /\ requests'[3] = 1
           /\ last_resp' = "body"
           /\ \E j \in 1..Len(messages_store') :
                 FirstAgentAfter(messages_store', user_message_id, j)) =>
            (/\ pc' = "ret3"
             /\ ret'[3].ok
             /\ \E j \in 1..Len(messages_store') :
                   /\ FirstAgentAfter(messages_store', user_message_id, j)
                   /\ ret'[3].value = messages_store'[j].sId
             /\ delays' = <<>>)]_vars
    /\ [][ret[3].done => requests'[3] = requests[3]]_vars

\* C10: the first page held the user entry and then an agent entry, which was
\* returned at once
C10_Witness ==
    /\ pc = "ret3"
    /\ ret[3].ok
    /\ requests[3] = 1
    /\ delays = <<>>
    /\ Len(messages_store) = 2
    /\ messages_store[1].sId = user_message_id
    /\ ret[3].value = messages_store[2].sId

\* the messages of the store, as a set
StoreSet(store) == {store[i] : i \in 1..Len(store)}

C12_SuccessExactlyOnStringId ==
    pc = "ret1" =>
        /\ ret[1].ok <=> last_resp = "body"
        /\ ret[1].ok => (IsStr(ret[1].value) /\ ret[1].value = last_id)
        /\ ~ret[1].ok => (ret[1].value = None /\ ret[1].error.step = 1)

\* C13 (as claimed): create_conversation and send_message issue exactly one
\* request per call, and Step 1 and Step 2 of the tool one each at most, so
\* that one invocation of the tool, like one run of the client, issues at
\* most one POST conversations and at most one POST
\* conversations/{id}/messages.
C13_OneCreateOnePost ==
    /\ requests[1] <= 1
    /\ requests[2] <= 1
    /\ (ret[1].done => requests[1] = 1)
    /\ (ret[2].done => requests[2] = 1)
    /\ posts <= 1

ConversationInUse == IF ret[1].ok THEN ret[1].value ELSE CONVERSATION_ID

\* C15: within one invocation of the tool a request of stage s is issued
\* only while no later stage has issued one, and only after stage s - 1
\* ended in Success (or, for the post, after the create was passed over
\* because an id is held); the post and the polls go to the conversation of
\* stage 1, the scan of stage 3 looks for the id stage 2 returned, the events
\* are those of the message stage 3 returned; and once a stage has ended in
\* Failure the invocation issues no request.
C15_StageOrder ==
    /\ [][\A s \in Stages : requests'[s] = requests[s] + 1 =>
            /\ \A t \in (s + 1)..4 : requests[t] = 0
            /\ \A t \in Stages \ {s} : requests'[t] = requests[t]
            /\ s = 2 => \/ ret[1].ok
                        \/ (requests[1] = 0 /\ ~ret[1].done /\ ~Falsy(CONVERSATION_ID))
            /\ s = 3 => (ret[2].ok /\ user_message_id = ret[2].value)
            /\ s = 4 => (ret[3].ok /\ last_request'.msg = ret[3].value)
            /\ s > 1 => last_request'.conv = ConversationInUse]_vars
    /\ [][\A s \in Stages : (ret[s].done /\ ~ret[s].ok) =>
            \A t \in Stages : requests'[t] <= requests[t]]_vars

\* C15: an invocation that created conv_2, posted, polled the messages twice
\* and the events twice, and returned the text
C15_Witness ==
    /\ pc = "idle"
    /\ payload.kind = "response"
    /\ requests = <<1, 1, 2, 2>>
    /\ last_request = Request("GET", "events", "conv_2", "m3")
    /\ user_message_id = "m2"

\* the configurations C16 names: the token empty, unset or the placeholder,
\* or the workspace id or the agent id absent
BadConfig(e) == ~ConfigPresent(e) \/ ~validate(DustAgentConfig(e))

\* C16 (as claimed): in a process started with such a configuration no
\* request is ever issued, and every invocation returns the configuration
\* error.
C16_NoRequestOnBadConfig ==
    BadConfig(env) =>
        /\ \A s \in Stages : requests[s] = 0
        /\ last_request = NoRequest
        /\ payload \in {NoPayload, ErrorPayload(0, "Missing required environment variables")}

\* C17 (as claimed): whatever the remote answers, no stage of the client
\* ends by raising: a stage that has issued a request and is no longer
\* running has returned a Success or a Failure.
C17_NoStageRaises ==
    /\ raised = "none"
    /\ \A s \in Stages :
         (requests[s] > 0 /\ pc \in {"end", "ret1", "ret2", "ret3", "ret4"}) => ret[s].done

\* C18 (as claimed): the Failure of a stage names that stage, and every error
\* payload the tool returns once its configuration is accepted, whether for
\* a body of an unexpected shape, a transport error, a timeout or an
\* unexpected fault, has a stage between 1 and 4 in front of its message.
C18_EveryErrorNamesItsStage ==
    /\ \A s \in Stages : (ret[s].done /\ ~ret[s].ok) => ret[s].error.step = s
    /\ (payload.kind = "error" /\ ConfigPresent(env)) => payload.step \in Stages

\* C19: the process starts with CONVERSATION_ID = None (the first conjunct
\* speaks of the initial state). An invocation whose
\* configuration is accepted goes to Step 1 exactly when new_conversation is
\* true or no id is held, Step 1 is left only by issuing the create request,
\* and no create request is issued from anywhere else; an invocation that
\* passes Step 1 over posts into the conversation whose id is held; and
\* CONVERSATION_ID changes only in a step that issues the create request and
\* ends in Success, to the id of the response.
C19_SessionConversationId ==
    /\ CONVERSATION_ID = None
    /\ [][(pc = "idle" /\ pc' # "idle") =>
            /\ pc' \in {"step1", "step2"}
            /\ pc' = "step1" <=> (new_conversation' \/ Falsy(CONVERSATION_ID))]_vars
    /\ [][(pc = "step1" /\ pc' # "step1") => requests'[1] = requests[1] + 1]_vars
    /\ [][requests'[1] > requests[1] => (pc = "step1" /\ requests[1] = 0)]_vars
    /\ [][(requests'[2] = requests[2] + 1 /\ requests[1] = 0) =>
            /\ ~new_conversation
            /\ ~Falsy(CONVERSATION_ID)
            /\ last_request' = Request("POST", "messages", CONVERSATION_ID, None)
            /\ CONVERSATION_ID' = CONVERSATION_ID]_vars
    /\ [][CONVERSATION_ID' # CONVERSATION_ID =>
            /\ requests'[1] = requests[1] + 1
            /\ last_resp' \in {"body", "null_id", "nonstring_id"}
            /\ ret'[1].ok
            /\ CONVERSATION_ID' = ret'[1].value]_vars

\* C19: a continuation has posted into conv_1, which an earlier invocation
\* created, without a create request of its own
C19_Witness ==
    /\ pc = "step3"
    /\ ~new_conversation
    /\ requests = <<0, 1, 0, 0>>
    /\ CONVERSATION_ID = "conv_1"
    /\ last_request = Request("POST", "messages", "conv_1", None)

\* C20 (as claimed): from the step in which the post of an invocation
\* succeeds, LAST_MESSAGE_ID is the id of the message that post created, so
\* that it is None only while no post has succeeded.
C20_LastMessageIdFollowsSend ==
    ret[2].ok => (LAST_MESSAGE_ID = ret[2].value /\ LAST_MESSAGE_ID # None)

\* the conversation an invocation created, or the one it found held
OwnConversation(inv) == IF inv.created # NoUrl THEN inv.created ELSE inv.held

\* C21: every url of an invocation is built from the process-wide
\* CONVERSATION_ID as it is when the url is built, and only Step 1 of some
\* invocation assigns it; so as long as no other invocation has assigned it
\* since an invocation was called (as when at most one is in flight), all
\* requests of the invocation go to one conversation, the one it created or
\* found held. With two invocations interleaved the id can be overwritten
\* between the create or the test of one and its later urls, and its post,
\* its message polls or its event polls go to another conversation.
C21_SharedConversationId ==
    /\ [](\A i \in Threads :
            ~invocations[i].overwritten =>
                \A s \in 2..4 :
                    invocations[i].url[s] \in {NoUrl, OwnConversation(invocations[i])})
    /\ [][\A i \in Threads : \A s \in 2..4 :
            (invocations'[i].url[s] # invocations[i].url[s]
                /\ invocations'[i].pc # "idle") =>
                    /\ invocations'[i].url[s] = CONVERSATION_ID
                    /\ invocations[i].pc = IF s = 2 THEN "step2"
                                           ELSE IF s = 3 THEN "step3" ELSE "step4"]_vars
    /\ [][CONVERSATION_ID' # CONVERSATION_ID =>
            \E i \in Threads :
                /\ invocations[i].pc = "step1"
                /\ invocations'[i].created = CONVERSATION_ID']_vars

\* C21: an invocation that created conv_1 has posted into conv_2, which the
\* other invocation created in between, polled the messages of conv_2 and is
\* polling the events of conv_2
C21_Witness ==
    \E i \in Threads :
        /\ invocations[i].pc = "step4"
        /\ invocations[i].created = "conv_1"
        /\ invocations[i].overwritten
        /\ invocations[i].url = [s \in 2..4 |-> "conv_2"]
        /\ invocations[i].attempt = 1

\* C22 (as claimed): when the shutdown signal has interrupted a polling
\* sleep, the invocation has ended with an error payload naming the stage
\* that was pending.
C22_SignalSurfacesFailure ==
    raised = "SystemExit" =>
        /\ payload.kind = "error"
        /\ \E s \in {3, 4} : ret[s].done /\ ~ret[s].ok

\* C23: when the create is answered with conv_1, create_conversation returns
\* Success(conv_1) and the test posts into conv_1; when that post is answered
\* with msg_1, send_message returns Success(msg_1) and the test looks for the
\* message after msg_1; when the first page holds msg_1 (user) and msg_2
\* (agent), get_agent_message returns Success(msg_2) in that attempt without
\* a sleep and the test asks for the events of msg_2 in conv_1; when the first
\* event list is the fragment "Hi" followed by the completion marker,
\* get_agent_response returns Success("Hi") in that attempt without a sleep.
\* A run of these four answers ends with four requests, no sleep and "Hi".
C23_EndToEnd ==
    /\ [][(pc = "create" /\ requests'[1] = 1 /\ last_resp' = "body"
              /\ last_id' = "conv_1") =>
            (pc' = "ret1" /\ ret'[1] = Success("conv_1"))]_vars
    /\ [][(pc = "ret1" /\ ret[1].ok) =>
            (pc' = "send" /\ conversation_id' = ret[1].value)]_vars
    /\ [][(pc = "send" /\ conversation_id = "conv_1" /\ requests'[2] = 1
              /\ last_resp' = "body" /\ last_id' = "msg_1") =>
            (/\ pc' = "ret2"
             /\ ret'[2] = Success("msg_1")
             /\ last_request' = Request("POST", "messages", "conv_1", None))]_vars
    /\ [][(pc = "ret2" /\ ret[2].ok) =>
            (pc' = "locate" /\ user_message_id' = ret[2].value)]_vars
    /\ [][(pc = "locate" /\ user_message_id = "msg_1" /\ requests[3] = 0
              /\ requests'[3] = 1 /\ fetched' = ScenarioMessages) =>
            (/\ pc' = "ret3"
             /\ ret'[3] = Success("msg_2")
             /\ delays' = <<>>
             /\ last_request' = Request("GET", "conversation", conversation_id, None))]_vars
    /\ [][(pc = "ret3" /\ ret[3].ok) =>
            (pc' = "respond" /\ agent_message_id' = ret[3].value)]_vars
    /\ [][(pc = "respond" /\ agent_message_id = "msg_2" /\ requests[4] = 0
              /\ requests'[4] = 1 /\ last_resp' = "body"
              /\ events' = <<ScenarioFragment, ScenarioMarker>>) =>
            (/\ pc' = "ret4"
             /\ ret'[4] = Success("Hi")
             /\ delays' = <<>>
             /\ last_request' = Request("GET", "events", conversation_id, "msg_2"))]_vars
    /\ []((/\ pc \in {"ret4", "end"}
           /\ requests = <<1, 1, 1, 1>>
           /\ events = <<ScenarioFragment, ScenarioMarker>>) =>
            (/\ \A s \in Stages : ret[s].ok
             /\ ret[4].value = "Hi"
             /\ delays = <<>>))

\* C23: the run of the four answers: four Successes, four requests, no
\* sleep, and the answer "Hi"
C23_Witness ==
    /\ pc = "end"
    /\ ret = <<Success("conv_1"), Success("msg_1"), Success("msg_2"), Success("Hi")>>
    /\ requests = <<1, 1, 1, 1>>
    /\ delays = <<>>
    /\ events = <<ScenarioFragment, ScenarioMarker>>
    /\ last_request = Request("GET", "events", "conv_1", "msg_2")

\* C24 (as claimed): while get_agent_message has located no agent entry,
\* every attempt so far was followed by its sleep: after k attempts the
\* sleeps taken are min(2 * 1, 10), ..., min(2 * k, 10), whatever made the
\* attempts end.
C24_BackoffAfterEveryMiss ==
    (pc \in {"locate", "ret3"} /\ ~ret[3].ok) =>
        delays = [k \in 1..attempt |-> IF 2 * k < 10 THEN 2 * k ELSE 10]

\* C24 (amended): attempt k of get_agent_message (counted from 1) is followed
\* by a sleep of min(2 * k, 10) when it ends on a page without an agent entry
\* after the user message, on a status other than 200 or on a transport
\* error, and by no sleep when it ends on a body of neither shape; either way
\* the attempt is counted. The sleeps taken never get shorter and none is
\* longer than 10.
C24_BackoffButAfterUnknownBody ==
    /\ [][(pc = "locate" /\ requests'[3] = requests[3] + 1 /\ ~ret'[3].done
              /\ last_resp' \in {"transport", "http", "body"}) =>
            (/\ attempt' = attempt + 1
             /\ delays' = Append(delays, IF 2 * attempt' < 10 THEN 2 * attempt' ELSE 10))]_vars
    /\ [][(pc = "locate" /\ requests'[3] = requests[3] + 1 /\ last_resp' = "shape") =>
            (/\ ~ret'[3].done
             /\ attempt' = attempt + 1
             /\ delays' = delays)]_vars
    /\ [](\A i \in 1..Len(delays) :
            /\ delays[i] <= 10
            /\ i > 1 => delays[i - 1] <= delays[i])

\* C24: six attempts without an agent entry, the third on a body of neither
\* shape: five sleeps, the last two of the cap
C24_Witness ==
    /\ pc = "ret3"
    /\ ~ret[3].ok
    /\ attempt = 6
    /\ delays = <<2, 4, 8, 10, 10>>
    /\ seen = {"transport", "http", "shape", "body"}

\* the content fragments of an event list, in the order of the list
FragmentsOf(evs) ==
    LET sel == SelectSeq(evs, LAMBDA e : e.block = "content")
    IN [i \in 1..Len(sel) |-> sel[i].content]

\* evs is the start of longer
IsPrefix(evs, longer) ==
    /\ Len(evs) <= Len(longer)
    /\ SubSeq(longer, 1, Len(evs)) = evs

\* C25: full_content always holds the fragments of the last fetched event
\* list and of no other; an attempt that fetches a list has these fragments
\* and returns Success exactly when that list holds the completion marker,
\* whatever the attempts before had; so when the list repeats the events of
\* the list before it and adds to them, the text has every fragment as often
\* as the new list has it, not twice. No attempt runs after a list with the
\* marker, so that a marker of an earlier list never makes a later attempt
\* succeed.
C25_CompletionOnCurrentList ==
    /\ [](pc \in {"respond", "ret4"} => full_content = FragmentsOf(events))
    /\ [](pc = "respond" => ~marker_seen)
    /\ [](ret[4].ok => HasMarker(events))
    /\ [][(pc = "respond" /\ requests'[4] = requests[4] + 1 /\ last_resp' = "body") =>
            (/\ ret'[4].ok <=> HasMarker(events')
             /\ ~ret'[4].ok => (pc' = "respond" /\ ~ret'[4].done)
             /\ (ret'[4].ok /\ events # <<>> /\ IsPrefix(events, events')) =>
                  /\ ret'[4].value = TextOfFirst(events', Len(events'))
                  /\ \A c \in {e.content : e \in Events} \ {NoStr} :
                       Cardinality({i \in 1..Len(full_content') : full_content'[i] = c})
                         = Cardinality({i \in 1..Len(events') :
                                          /\ events'[i].block = "content"
                                          /\ events'[i].content = c}))]_vars

\* C25: Success in the third attempt on a list of two fragments and the
\* marker, each fragment once in the text, after two sleeps
C25_Witness ==
    /\ pc = "ret4"
    /\ ret[4].ok
    /\ attempt = 2
    /\ delays = <<1, 1>>
    /\ Len(events) = 3
    /\ events[3].type = "generation-complete"
    /\ ret[4].value = "Hello\n world"

\* the positions the scan reaches with user_message_found set: all of them
\* when it was set before the scan, else those after the entry with id uid
ScannedAfterUser(store, found, uid) ==
    IF found THEN 1..Len(store)
    ELSE {j \in 1..Len(store) : \E u \in 1..(j - 1) : store[u].sId = uid}

\* the entries among them that either field marks as the agent's
AgentSignalled(store, found, uid) ==
    {j \in ScannedAfterUser(store, found, uid) :
        \/ store[j].author_type = "assistant"
        \/ store[j].type \in {"assistant_message", "agent_message"}}

\* C26: in every attempt of get_agent_message that fetches a page, the
\* entries scanned after the user message are tested on both fields: the
\* attempt returns Success exactly when one of them has author type
\* assistant or message type assistant_message or agent_message, with the id
\* of the first such entry; entries with neither are passed over, and when
\* all are such the attempt ends without a return.
C26_RoleFromEitherField ==
    [][(pc = "locate" /\ requests'[3] = requests[3] + 1 /\ last_resp' = "body") =>
        LET hits == AgentSignalled(messages_store', user_message_found, user_message_id)
        IN /\ ret'[3].ok <=> hits # {}
           /\ hits # {} =>
                \E j \in hits :
                    /\ \A k \in hits : j <= k
                    /\ ret'[3].value = messages_store'[j].sId
           /\ hits = {} => (~ret'[3].done /\ pc' = "locate")]_vars

\* C26: the user message m2 came in the first page, m4, which only its
\* message type marks as the agent's, in the second; m4 was returned
C26_Witness ==
    /\ pc = "ret3"
    /\ ret[3] = Success("m4")
    /\ user_message_id = "m2"
    /\ requests[3] = 2
    /\ seen = {"body"}
    /\ delays = <<2>>
    /\ Len(messages_store) = 2
    /\ messages_store[1].sId = "m2"
    /\ messages_store[2].author_type = NoStr

\* C27 (as claimed): after every merge the messages of the store that carry
\* created are in ascending order of it; and when no message of the store
\* carries created, those that carry rank are in ascending order of rank;
\* whatever the first stored message carries.
C27_SortedByPreferredKey ==
    pc \in {"locate", "ret3"} =>
        LET n == Len(messages_store)
            timed == {i \in 1..n : messages_store[i].created # NoKey}
            ranked == {i \in 1..n : messages_store[i].rank # NoKey}
        IN IF timed # {}
           THEN \A i, j \in timed :
                  i < j => messages_store[i].created <= messages_store[j].created
           ELSE \A i, j \in ranked :
                  i < j => messages_store[i].rank <= messages_store[j].rank

\* C28: get_agent_message returns Success only when a message with the id
\* user_message_id was in a page it fetched; user_message_found is set only
\* then; and an attempt after which no fetched page has had that message does
\* not return Success, whatever agent messages the pages had.
C28_SuccessNeedsUserMessage ==
    /\ []((pc = "ret3" /\ ret[3].ok) => \E m \in fetched : m.sId = user_message_id)
    /\ []((pc \in {"locate", "ret3"} /\ user_message_found) =>
            \E m \in fetched : m.sId = user_message_id)
    /\ [][(pc = "locate" /\ requests'[3] = requests[3] + 1
              /\ ~\E m \in fetched' : m.sId = user_message_id) =>
            (~ret'[3].ok /\ ~user_message_found')]_vars

\* C28: three polls brought the three agent messages and never the user
\* message m2: a Failure
C28_Witness ==
    /\ pc = "ret3"
    /\ ~ret[3].ok
    /\ user_message_id = "m2"
    /\ requests[3] = 3
    /\ {m.sId : m \in fetched} = {"m1", "m3", "m4"}
    /\ Len(messages_store) = 3

\* C29: a Step 1 that ends in Failure (a transport or HTTP error, a body
\* without conversation.sId, a body that makes the extraction raise) leaves
\* CONVERSATION_ID as it was and ends the invocation with an error payload
\* and without a post; between two creates nothing assigns CONVERSATION_ID; so
\* a continuation called after the failure, with an id held, passes Step 1
\* over and posts into the conversation held before the failed invocation.
C29_FailedCreateKeepsSession ==
    /\ [][(pc = "step1" /\ requests'[1] = requests[1] + 1 /\ ~ret'[1].ok) =>
            (/\ CONVERSATION_ID' = CONVERSATION_ID
             /\ pc' = "idle"
             /\ payload'.kind = "error"
             /\ requests' = <<1, 0, 0, 0>>
             /\ posts' = 0)]_vars
    /\ [][(ret[1].done /\ ~ret[1].ok) =>
            (/\ requests'[2] = 0 /\ posts' = 0
             /\ CONVERSATION_ID' = CONVERSATION_ID)]_vars
    /\ [][(pc = "idle" /\ ret[1].done /\ ~ret[1].ok /\ ~Falsy(CONVERSATION_ID)
              /\ ConfigPresent(env) /\ new_conversation' = FALSE /\ requests' # requests) =>
            (pc' = "step2" /\ ~ret'[1].done)]_vars
    /\ [][pc # "step1" => CONVERSATION_ID' = CONVERSATION_ID]_vars
    /\ [][(pc = "step2" /\ requests'[2] = requests[2] + 1) =>
            last_request' = Request("POST", "messages", CONVERSATION_ID, None)]_vars

\* C29: an invocation asked for a new conversation while conv_1 was held, got
\* a body without conversation.sId, and returned the error of Step 1 with
\* conv_1 still held
C29_Witness ==
    /\ pc = "idle"
    /\ new_conversation
    /\ ret[1].done
    /\ ~ret[1].ok
    /\ last_resp = "shape"
    /\ payload = ErrorPayload(1, "Unexpected response format")
    /\ CONVERSATION_ID = "conv_1"
    /\ requests = <<1, 0, 0, 0>>

\* the list has the completion marker and no event with a content fragment
MarkerOnly(evs) ==
    /\ \E i \in 1..Len(evs) : evs[i].type = "generation-complete"
    /\ \A i \in 1..Len(evs) : evs[i].block # "content"

\* C30: an attempt of get_agent_response whose event list has the completion
\* marker and no content fragment returns Success with the empty string in
\* that attempt: no Failure, no sleep, no further poll.
C30_EmptyAnswerOnBareMarker ==
    /\ [][(pc = "respond" /\ requests'[4] = requests[4] + 1 /\ last_resp' = "body"
              /\ MarkerOnly(events')) =>
            (/\ pc' = "ret4"
             /\ ret'[4] = Success("")
             /\ attempt' = attempt
             /\ delays' = delays)]_vars
    /\ []((pc = "ret4" /\ last_resp = "body" /\ MarkerOnly(events)) =>
            (ret[4] = Success("") /\ full_content = <<>>))
    /\ [][ret[4].done => requests'[4] = requests[4]]_vars

\* C30: the second poll brought an event without content and the marker:
\* Success with the empty string
C30_Witness ==
    /\ pc = "ret4"
    /\ ret[4] = Success("")
    /\ requests[4] = 2
    /\ delays = <<1>>
    /\ Len(events) = 2
    /\ events[1].block = "nocontent"
    /\ events[2].type = "generation-complete"

\* a side ended the stage with a Failure
FailedAt(side, stage) == side.ret[stage].done /\ ~side.ret[stage].ok

\* the same found id, the same final text, or a Failure of the same stage
SameOutcome(a, b) ==
    \A s \in PollingStages :
        /\ a.ret[s].done = b.ret[s].done
        /\ a.ret[s].ok = b.ret[s].ok
        /\ a.ret[s].value = b.ret[s].value
        /\ FailedAt(a, s) = FailedAt(b, s)

\* C31: Once the tool's inline stages and the client's get_agent_message and
\* get_agent_response have both returned, having been given the same sequence
\* of remote answers, they have the same outcome (the same found id or final
\* text, or a Failure of the same stage) and have issued the same number of
\* requests in each stage.
C31_SameOutcomeSameRequests ==
    pc = "returned" =>
        /\ SameOutcome(invocations.client, invocations.tool)
        /\ invocations.client.requests = invocations.tool.requests

====
